---- MODULE Spec2Model ----
(***************************************************************************)
(* Model of the template download utilities of the chat client             *)
(* (templateDownloadUtils.js): link extraction from chat text, removal of  *)
(* the extracted links for display, filename derivation and the download   *)
(* of a link target.                                                       *)
(*                                                                         *)
(* Text is a sequence of tokens.  A token is one character, or one word    *)
(* that every character class of the patterns treats uniformly:            *)
(*   "[" "]" "(" ")" ":"   the literal characters                          *)
(*   "**"                  two asterisks                                   *)
(*   " " "\n"              whitespace (\s)                                 *)
(*   "a"                   any other letter or digit                       *)
(*   "EMOJI"               the inbox emoji U+1F4E5                         *)
(*   "U"                   "http://" or "https://" plus one URL character  *)
(*   "V"                   the same with a scheme not written in lower     *)
(*                         case ("HTTP://x"): it matches https? only under *)
(*                         the i flag and fails startsWith('http')         *)
(*   "yukle" "yukleme" "linki" "download" "link"   the keywords            *)
(*   "Yukle"               the keyword "yukle" with a capital letter, which *)
(*                         the i flag lets match                           *)
(***************************************************************************)
EXTENDS Integers, Sequences, FiniteSets, TLC

VARIABLES
    content,        \* the chat text handed to processContent
    phase,          \* "input" until the function under study has returned, then "done"
    downloadLinks,  \* processContent's downloadLinks
    cleanContent,   \* processContent's cleanContent
    templateName,   \* generateFilename's label argument
    extension,      \* generateFilename's extension argument
    filename,       \* generateFilename's result
    calls,          \* downloadFromUrl invocations: call id -> record
    objectUrls,     \* window.URL: object URL id -> [owner, blob, revokedBy]
    anchors,        \* document.body: the anchor elements [owner, href, download]
    saves,          \* the saves the clicks started: <<[call, href, download, blob]>>
    fetches,        \* number of HTTP GET requests issued, by call id
    patternTable,   \* the module's DOWNLOAD_LINK_PATTERNS array
    scan,           \* the parseDownloadLinks invocation that is running
    parseCalls,     \* number of parseDownloadLinks invocations so far
    linkCall,       \* the chat view's download of a link: one invocation
    authStore,      \* useAuthStore: [user, isAuthenticated, isLoading, error]
    session,        \* the server's session of the browser: logged in or not
    requests,       \* the authService requests in flight
    page,           \* the loaded page: route, ProtectedRoute instance, timers
    authHistory,    \* history of the page: requests issued, logins completed
    chat,           \* SmartDashboard's state: messages, isLoading, currentConversation
    asks,           \* the handleSendMessage / handleSelectDocument calls under way
    loads,          \* the handleLoadConversation calls under way
    files,          \* FileManagement's state: documents, filters, selection
    serverDocs,     \* the documents the server holds
    searches,       \* the filterAndSortDocuments runs that await a search
    fileOps         \* the deletions and loadDocuments calls under way

vars == <<content, phase, downloadLinks, cleanContent,
          templateName, extension, filename,
          calls, objectUrls, anchors, saves, fetches,
          patternTable, scan, parseCalls,
          linkCall, authStore, session, requests, page, authHistory,
          chat, asks, loads, files, serverDocs, searches, fileOps>>

parseVars == <<content, downloadLinks, cleanContent>>
nameVars == <<templateName, extension, filename>>
dlVars == <<calls, objectUrls, anchors, saves, fetches>>
scanVars == <<patternTable, scan, parseCalls>>
linkVars == <<linkCall>>
authVars == <<authStore, session, requests, page, authHistory>>
chatVars == <<chat, asks, loads>>
fileVars == <<files, serverDocs, searches, fileOps>>
appVars == <<linkVars, authVars, chatVars, fileVars>>

----------------------------------------------------------------------------
(* Bounds *)

\* texts are concatenations of at most MaxChunks chunks of the vocabulary
MaxChunks == 4
\* texts of the whitespace study are at most MaxCleanChunks chunks long
MaxCleanChunks == 5
\* labels are at most MaxLabelLen characters long
MaxLabelLen == 4
\* downloadFromUrl invocations that may be in flight together
MaxCalls == 2
\* the texts parsed step by step are at most MaxScanChunks chunks long
MaxScanChunks == 2
\* parseDownloadLinks invocations that follow one another
MaxParseCalls == 2
\* the texts of chat messages shown by the dashboard are at most
\* MaxInlineChunks chunks long
MaxInlineChunks == 3
\* the server holds MaxDocs documents at the start
MaxDocs == 2
\* at most MaxSearches runs of filterAndSortDocuments await a search
MaxSearches == 1
\* at most MaxFileOps deletions and loads are under way together
MaxFileOps == 1
\* the chat view sends at most MaxAsks questions
MaxAsks == 3
\* and shows at most MaxThreads conversations after the first
MaxThreads == 2
\* a page issues at most MaxRequests authService requests
MaxRequests == 4
\* removeDownloadLinks is handed at most MaxRemoveLinks links
MaxRemoveLinks == 2
\* and a text of at most MaxRemoveChunks chunks
MaxRemoveChunks == 4
\* the filename parameter of a Content-Disposition header has a value of at
\* most MaxHeaderChunks chunks
MaxHeaderChunks == 4

----------------------------------------------------------------------------
(* Sequences of tokens *)

Whitespace == {" ", "\n"}
HttpLower == {"U"}
HttpAnyCase == {"U", "V"}
\* the tokens whose first character is one of h, t, p in either case
HttpClass == {"U", "V", "template"}
\* the tokens that hold a colon: [^:] matches none of them
ColonTokens == {":", "U", "V"}

\* smallest k >= from with s[k] \in T, or 0
FirstAt(s, from, T) ==
    LET I == {k \in from..Len(s) : s[k] \in T}
    IN  IF I = {} THEN 0 ELSE CHOOSE k \in I : \A m \in I : k <= m

\* smallest k >= from with s[k] \notin T, or Len(s) + 1
FirstNotAt(s, from, T) ==
    LET I == {k \in from..Len(s) : s[k] \notin T}
    IN  IF I = {} THEN Len(s) + 1 ELSE CHOOSE k \in I : \A m \in I : k <= m

\* String.prototype.trim
Trim(s) ==
    LET a == FirstNotAt(s, 1, Whitespace)
        J == {k \in 1..Len(s) : s[k] \notin Whitespace}
    IN  IF J = {} THEN <<>>
        ELSE SubSeq(s, a, CHOOSE k \in J : \A m \in J : m <= k)

\* whether sub occurs in s at position i
OccursAt(s, sub, i) ==
    /\ i + Len(sub) - 1 <= Len(s)
    /\ \A k \in 1..Len(sub) : s[i + k - 1] = sub[k]

\* String.prototype.indexOf, 1-based; 0 when sub does not occur
IndexOf(s, sub) ==
    LET I == {i \in 1..(Len(s) + 1) : OccursAt(s, sub, i)}
    IN  IF I = {} THEN 0 ELSE CHOOSE i \in I : \A m \in I : i <= m

Contains(s, sub) == IndexOf(s, sub) # 0

RECURSIVE Flatten(_)
Flatten(ss) == IF ss = <<>> THEN <<>> ELSE Head(ss) \o Flatten(Tail(ss))

----------------------------------------------------------------------------
(* DOWNLOAD_LINK_PATTERNS and the regular expressions *)

\* textIndex: null
NullIndex == 0

\* the table with a textIndex that names a group the markdown regex lacks
PatternsWithMissingTextGroup == <<
    [regex |-> "markdown", textIndex |-> 3, urlIndex |-> 2,
     type |-> "markdown", defaultText |-> <<>>, priority |-> 1],
    [regex |-> "emoji", textIndex |-> NullIndex, urlIndex |-> 1,
     type |-> "emoji_direct", defaultText |-> <<"Yukle">>, priority |-> 2],
    [regex |-> "bold", textIndex |-> NullIndex, urlIndex |-> 1,
     type |-> "bold_direct", defaultText |-> <<"Yukleme linki">>, priority |-> 3],
    [regex |-> "keyword", textIndex |-> 1, urlIndex |-> 2,
     type |-> "keyword_direct", defaultText |-> <<>>, priority |-> 4] >>

DOWNLOAD_LINK_PATTERNS == <<
    [regex |-> "markdown", textIndex |-> 1, urlIndex |-> 2,
     type |-> "markdown", defaultText |-> <<>>, priority |-> 1],
    [regex |-> "emoji", textIndex |-> NullIndex, urlIndex |-> 1,
     type |-> "emoji_direct", defaultText |-> <<"Yukle">>, priority |-> 2],
    [regex |-> "bold", textIndex |-> NullIndex, urlIndex |-> 1,
     type |-> "bold_direct", defaultText |-> <<"Yukleme linki">>, priority |-> 3],
    [regex |-> "keyword", textIndex |-> 1, urlIndex |-> 2,
     type |-> "keyword_direct", defaultText |-> <<>>, priority |-> 4] >>

NoMatch == [index |-> 0, end |-> 0, groups |-> <<>>]

\* (https?:\/\/[^\s\n]+) under the i flag, at position q: the end of the capture
\* (exclusive), or 0
DirectUrlEnd(s, q) ==
    IF q >= 1 /\ q <= Len(s) /\ s[q] \in HttpAnyCase
    THEN LET r == FirstAt(s, q, Whitespace) IN IF r = 0 THEN Len(s) + 1 ELSE r
    ELSE 0

\* [\s]*:?[\s]* from position from: the position where the URL must start
AfterSeparator(s, from) ==
    LET q == FirstNotAt(s, from, Whitespace)
    IN  IF q <= Len(s) /\ s[q] = ":" THEN FirstNotAt(s, q + 1, Whitespace) ELSE q

DirectMatch(s, i, q, groupsBefore) ==
    LET r == DirectUrlEnd(s, q)
    IN  IF r = 0 THEN NoMatch
        ELSE [index |-> i, end |-> r,
              groups |-> groupsBefore \o <<SubSeq(s, q, r - 1)>>]

\* /\[([^\]]+)\]\((https?:\/\/[^\)]+)\)/g
MatchMarkdownAt(s, i) ==
    IF s[i] # "[" THEN NoMatch
    ELSE LET j == FirstAt(s, i + 1, {"]"})
         IN  IF j = 0 \/ j = i + 1 \/ j + 2 > Len(s) THEN NoMatch
             ELSE IF s[j + 1] # "(" \/ s[j + 2] \notin HttpLower THEN NoMatch
             ELSE LET k == FirstAt(s, j + 3, {")"})
                  IN  IF k = 0 THEN NoMatch
                      ELSE [index |-> i, end |-> k + 1,
                            groups |-> <<SubSeq(s, i + 1, j - 1),
                                         SubSeq(s, j + 2, k - 1)>>]

\* /EMOJI[^:]*:?[\s]*(https?:\/\/[^\s\n]+)/gi
MatchEmojiAt(s, i) ==
    IF s[i] # "EMOJI" THEN NoMatch
    ELSE LET p == FirstAt(s, i + 1, ColonTokens)
         IN  IF p = 0 THEN NoMatch
             ELSE IF s[p] = ":"
                  THEN DirectMatch(s, i, FirstNotAt(s, p + 1, Whitespace), <<>>)
                  ELSE DirectMatch(s, i, p, <<>>)

\* /\*\*[^*]*yükləmə[^*]*linki[^*]*\*\*[\s]*:?[\s]*(https?:\/\/[^\s\n]+)/gi
MatchBoldAt(s, i) ==
    IF s[i] # "**" THEN NoMatch
    ELSE LET j == FirstAt(s, i + 1, {"**"})
         IN  IF j = 0 THEN NoMatch
             ELSE IF \E a \in (i + 1)..(j - 1) : \E b \in (a + 1)..(j - 1) :
                        s[a] = "yukleme" /\ s[b] = "linki"
                  THEN DirectMatch(s, i, AfterSeparator(s, j + 1), <<>>)
                  ELSE NoMatch

\* (yükləmə linki|download link|yüklə): the position after the keyword, or 0
KeywordEnd(s, i) ==
    IF i + 2 <= Len(s) /\ s[i] = "yukleme" /\ s[i + 1] = " " /\ s[i + 2] = "linki"
    THEN i + 3
    ELSE IF i + 2 <= Len(s) /\ s[i] = "download" /\ s[i + 1] = " " /\ s[i + 2] = "link"
    THEN i + 3
    ELSE IF s[i] \in {"yukle", "Yukle"} THEN i + 1
    ELSE 0

\* /(yükləmə linki|download link|yüklə)[\s]*:?[\s]*(https?:\/\/[^\s\n]+)/gi
MatchKeywordAt(s, i) ==
    LET e == KeywordEnd(s, i)
    IN  IF e = 0 THEN NoMatch
        ELSE DirectMatch(s, i, AfterSeparator(s, e), <<SubSeq(s, i, e - 1)>>)

\* ([http][^\s\n]+) under the i flag, at position q: a character class, so
\* one character out of h, t, p in either case and then whatever is not
\* whitespace; the end of the capture (exclusive), or 0
InlineUrlEnd(s, q) ==
    IF q >= 1 /\ q <= Len(s) /\ s[q] \in HttpClass
    THEN LET r == FirstAt(s, q, Whitespace) IN IF r = 0 THEN Len(s) + 1 ELSE r
    ELSE 0

InlineMatch(s, i, q) ==
    LET r == InlineUrlEnd(s, q)
    IN  IF r = 0 THEN NoMatch
        ELSE [index |-> i, end |-> r, groups |-> <<SubSeq(s, q, r - 1)>>]

\* /\*\*[^*]*yükləmə[^*]*linki[^*]*\*\*[:\s]*([http][^\s\n]+)/gi
MatchInlineBoldAt(s, i) ==
    IF s[i] # "**" THEN NoMatch
    ELSE LET j == FirstAt(s, i + 1, {"**"})
         IN  IF j = 0 THEN NoMatch
             ELSE IF \E a \in (i + 1)..(j - 1) : \E b \in (a + 1)..(j - 1) :
                        s[a] = "yukleme" /\ s[b] = "linki"
                  THEN InlineMatch(s, i, FirstNotAt(s, j + 1, Whitespace \cup {":"}))
                  ELSE NoMatch

\* /EMOJI[^:]*:[:\s]*([http][^\s\n]+)/gi: the colon is the first one after
\* the emoji; that of a URL is followed by a slash, which the class refuses
MatchInlineEmojiAt(s, i) ==
    IF s[i] # "EMOJI" THEN NoMatch
    ELSE LET p == FirstAt(s, i + 1, ColonTokens)
         IN  IF p = 0 \/ s[p] # ":" THEN NoMatch
             ELSE InlineMatch(s, i, FirstNotAt(s, p + 1, Whitespace \cup {":"}))

MatchAt(regex, s, i) ==
    CASE regex = "markdown" -> MatchMarkdownAt(s, i)
      [] regex = "emoji" -> MatchEmojiAt(s, i)
      [] regex = "bold" -> MatchBoldAt(s, i)
      [] regex = "keyword" -> MatchKeywordAt(s, i)
      [] regex = "inlineBold" -> MatchInlineBoldAt(s, i)
      [] regex = "inlineEmoji" -> MatchInlineEmojiAt(s, i)

\* RegExp.prototype.exec of a global regex whose lastIndex is lastIndex
\* (1-based): the leftmost match at or after it
Exec(regex, s, lastIndex) ==
    LET I == {i \in lastIndex..Len(s) : MatchAt(regex, s, i) # NoMatch}
    IN  IF I = {} THEN NoMatch
        ELSE MatchAt(regex, s, CHOOSE i \in I : \A m \in I : i <= m)

\* the matches of the while loop over regex.exec(content), a fresh regex
\* starting at lastIndex 0
RECURSIVE ExecAll(_, _, _)
ExecAll(regex, s, lastIndex) ==
    LET m == Exec(regex, s, lastIndex)
    IN  IF m = NoMatch THEN <<>>
        ELSE <<m>> \o ExecAll(regex, s, m.end)

FullMatch(s, m) == SubSeq(s, m.index, m.end - 1)

----------------------------------------------------------------------------
(* TemplateDownloadHandler.parseDownloadLinks *)

\* (a.priority || 99)
PriorityOrDefault(x) == IF x.priority = 0 THEN 99 ELSE x.priority

\* one step of a stable ascending sort of [key, val] pairs: x goes after every
\* element that does not compare greater
RECURSIVE InsertByKey(_, _)
InsertByKey(sorted, x) ==
    IF sorted = <<>> THEN <<x>>
    ELSE IF Head(sorted).key <= x.key
         THEN <<Head(sorted)>> \o InsertByKey(Tail(sorted), x)
         ELSE <<x>> \o sorted

RECURSIVE StableSortFrom(_, _, _)
StableSortFrom(seq, keys, acc) ==
    IF seq = <<>> THEN [i \in 1..Len(acc) |-> acc[i].val]
    ELSE StableSortFrom(Tail(seq), Tail(keys),
                        InsertByKey(acc, [key |-> Head(keys), val |-> Head(seq)]))

\* Array.prototype.sort (stable) with a comparator that subtracts keys
SortByKeys(seq, keys) == StableSortFrom(seq, keys, <<>>)

\* the comparator reversed: (a, b) => (b.priority || 99) - (a.priority || 99)
SortPatternsDescending(table) ==
    SortByKeys(table, [i \in 1..Len(table) |-> 0 - PriorityOrDefault(table[i])])

\* table.sort((a, b) => (a.priority || 99) - (b.priority || 99)): the array
\* after the sort, which is also the value of the call
SortPatterns(table) ==
    SortByKeys(table, [i \in 1..Len(table) |-> PriorityOrDefault(table[i])])

\* DOWNLOAD_LINK_PATTERNS.sort(...) on the table as the module defines it
SortedPatterns == SortPatterns(DOWNLOAD_LINK_PATTERNS)

\* the comparator reversed: (a, b) => b.priority - a.priority
SortLinksDescending(links) ==
    SortByKeys(links, [i \in 1..Len(links) |-> 0 - links[i].priority])

\* links.sort((a, b) => a.priority - b.priority)
SortLinks(links) ==
    SortByKeys(links, [i \in 1..Len(links) |-> links[i].priority])

\* the scheme compared without regard to case
StartsWithHttpAnyCase(url) == Len(url) > 0 /\ url[1] \in HttpAnyCase

\* url.startsWith('http')
StartsWithHttp(url) == Len(url) > 0 /\ url[1] \in HttpLower

\* the validation dropped down to the emptiness test
ValidUrlNonEmptyOnly(url) == url # <<>>

\* !(!url || !url.startsWith('http'))
ValidUrl(url) == url # <<>> /\ StartsWithHttp(url)

\* the default text taken whatever the pattern captures
LinkTextAlwaysDefault(pattern, m) ==
    IF pattern.defaultText # <<>> THEN pattern.defaultText ELSE <<"Yukle">>

\* pattern.textIndex !== null ? match[pattern.textIndex].trim()
\*                            : pattern.defaultText || 'Yüklə'
LinkText(pattern, m) ==
    IF pattern.textIndex # NullIndex THEN Trim(m.groups[pattern.textIndex])
    ELSE IF pattern.defaultText # <<>> THEN pattern.defaultText
    ELSE <<"Yukle">>

\* the object pushed onto links
MakeLink(pattern, m, s) ==
    [text |-> LinkText(pattern, m),
     url |-> Trim(m.groups[pattern.urlIndex]),
     type |-> pattern.type,
     fullMatch |-> FullMatch(s, m),
     priority |-> PriorityOrDefault(pattern)]

\* the body of the while loop for the matches of one pattern, in order;
\* acc is [links, processedUrls]
RECURSIVE ProcessMatches(_, _, _, _)
ProcessMatches(pattern, matches, s, acc) ==
    IF matches = <<>> THEN acc
    ELSE LET m == Head(matches)
             url == m.groups[pattern.urlIndex]
         IN  IF url \in acc.processedUrls \/ ~ValidUrl(url)
             THEN ProcessMatches(pattern, Tail(matches), s, acc)
             ELSE ProcessMatches(pattern, Tail(matches), s,
                      [links |-> Append(acc.links, MakeLink(pattern, m, s)),
                       processedUrls |-> acc.processedUrls \cup {url}])

\* sortedPatterns.forEach(pattern => ...)
RECURSIVE ForEachPattern(_, _, _)
ForEachPattern(patterns, s, acc) ==
    IF patterns = <<>> THEN acc
    ELSE ForEachPattern(Tail(patterns), s,
             ProcessMatches(Head(patterns), ExecAll(Head(patterns).regex, s, 1), s, acc))

\* parseDownloadLinks(s) when the module's table holds table
parseDownloadLinksWith(table, s) ==
    SortLinks(ForEachPattern(SortPatterns(table), s,
                             [links |-> <<>>, processedUrls |-> {}]).links)

\* parseDownloadLinks(s) on the table as the module defines it
parseDownloadLinks(s) == parseDownloadLinksWith(DOWNLOAD_LINK_PATTERNS, s)

----------------------------------------------------------------------------
(* MessageContentProcessor.removeDownloadLinks *)

\* every occurrence replaced, as replaceAll or a g-flagged regex would
RECURSIVE ReplaceEvery(_, _)
ReplaceEvery(s, sub) ==
    LET i == IndexOf(s, sub)
    IN  IF i = 0 \/ sub = <<>> THEN s
        ELSE SubSeq(s, 1, i - 1) \o ReplaceEvery(SubSeq(s, i + Len(sub), Len(s)), sub)

\* String.prototype.replace with a string pattern and '': the first
\* occurrence only
ReplaceFirst(s, sub) ==
    LET i == IndexOf(s, sub)
    IN  IF i = 0 THEN s
        ELSE SubSeq(s, 1, i - 1) \o SubSeq(s, i + Len(sub), Len(s))

\* links.forEach(link => { if (link.fullMatch) cleanContent = ... })
RECURSIVE RemoveEach(_, _)
RemoveEach(s, links) ==
    IF links = <<>> THEN s
    ELSE RemoveEach(IF Head(links).fullMatch # <<>>
                    THEN ReplaceFirst(s, Head(links).fullMatch)
                    ELSE s,
                    Tail(links))

\* replaces every maximal run of at least min tokens of T by by
RECURSIVE CollapseRuns(_, _, _, _)
CollapseRuns(s, T, min, by) ==
    IF s = <<>> THEN <<>>
    ELSE IF Head(s) \notin T THEN <<Head(s)>> \o CollapseRuns(Tail(s), T, min, by)
    ELSE LET e == FirstNotAt(s, 1, T)
         IN  (IF e - 1 >= min THEN by ELSE SubSeq(s, 1, e - 1))
             \o CollapseRuns(SubSeq(s, e, Len(s)), T, min, by)

\* .replace(/\n{3,}/g, '\n\n')
CollapseNewlines(s) == CollapseRuns(s, {"\n"}, 3, <<"\n", "\n">>)

\* .replace(/\s{2,}/g, ' ')
CollapseWhitespace(s) == CollapseRuns(s, Whitespace, 2, <<" ">>)

removeDownloadLinks(s, links) ==
    Trim(CollapseWhitespace(CollapseNewlines(RemoveEach(s, links))))

----------------------------------------------------------------------------
(* TemplateDownloadHandler.generateFilename *)
(* A label is a sequence of characters, each one of:                       *)
(*   "a"      a-z or 0-9                 "A"      A-Z                       *)
(*   "schwa"  one of ə ı ö ü ç ş ğ       "SCHWA"  one of Ə Ö Ü Ç Ş Ğ        *)
(*   "Idot"   İ (U+0130), whose lower case is i followed by U+0307 ("dot") *)
(*   "!"      any other character that is not whitespace, "_" or "."       *)
(*   "_" "." " " "\n"                                                       *)

\* String.prototype.toLowerCase, per character
LowerChar(t) ==
    CASE t = "A" -> <<"a">>
      [] t = "SCHWA" -> <<"schwa">>
      [] t = "Idot" -> <<"a", "dot">>
      [] OTHER -> <<t>>

ToLowerCase(s) == Flatten([i \in 1..Len(s) |-> LowerChar(s[i])])

\* the characters [a-z0-9əıöüçşğ\s] matches
PermittedChars == {"a", "schwa"} \cup Whitespace

\* a character class that also lets "_" and "." through
RemoveNotPermittedKeepingPunctuation(s) ==
    SelectSeq(s, LAMBDA t : t \in PermittedChars \cup {"_", "."})

\* .replace(/[^a-z0-9əıöüçşğ\s]/g, '')
RemoveNotPermitted(s) == SelectSeq(s, LAMBDA t : t \in PermittedChars)

\* .replace(/\s+/g, '_')
WhitespaceToUnderscore(s) == CollapseRuns(s, Whitespace, 1, <<"_">>)

\* .replace(/_{2,}/g, '_')
CollapseUnderscores(s) == CollapseRuns(s, {"_"}, 2, <<"_">>)

\* the strip step left out
KeepEdgeUnderscores(s) == s

\* .replace(/^_|_$/g, ''): one "_" at the start and one at the end
StripEdgeUnderscores(s) ==
    LET t == IF s # <<>> /\ Head(s) = "_" THEN Tail(s) ELSE s
    IN  IF t # <<>> /\ t[Len(t)] = "_" THEN SubSeq(t, 1, Len(t) - 1) ELSE t

CleanName(name) ==
    StripEdgeUnderscores(CollapseUnderscores(WhitespaceToUnderscore(
        RemoveNotPermitted(ToLowerCase(name)))))

\* the default parameter: extension = 'docx'
ExtensionOrDefault(ext) == IF ext = "undefined" THEN "docx" ELSE ext

\* `${cleanName || 'template'}.${extension}`
generateFilename(name, ext) ==
    (IF CleanName(name) = <<>> THEN <<"template">> ELSE CleanName(name))
        \o <<".", ExtensionOrDefault(ext)>>

----------------------------------------------------------------------------
(* Inputs *)

UpTo(n, V) == UNION {[1..k -> V] : k \in 0..n}

\* the pieces chat texts are put together from
ParseVocabulary == {
    <<"[", "a", "]", "(", "U", ")">>,
    <<"[", "a", "]", "(", "U", " ", ")">>,
    <<"[", "a", "]", "(">>,
    <<"U">>, <<"V">>, <<")">>, <<" ">>, <<"a">>, <<":">>,
    <<"EMOJI">>, <<"yukle">>,
    <<"**", "yukleme", " ", "linki", "**">>,
    <<"yukleme", " ", "linki">> }

\* an emoji link with the capitalised keyword as its label, words, and a
\* markdown link to a second URL
ExampleText ==
    <<"EMOJI", " ", "Yukle", ":", " ", "U", " ", "a", " ",
      "[", "a", "]", "(", "U", "a", ")">>

ParseTexts ==
    {Flatten(cs) : cs \in UpTo(MaxChunks, ParseVocabulary)} \cup {ExampleText}

CleanVocabulary == {<<"a">>, <<" ">>, <<"\n">>, <<"[", "a", "]", "(", "U", ")">>}

CleanTexts == {Flatten(cs) : cs \in UpTo(MaxCleanChunks, CleanVocabulary)}

\* the pieces of the texts parsed step by step: two markdown links to
\* different URLs, an emoji link whose scheme is in upper case, an emoji link
\* followed by words, a bold label, a keyword, a bare URL, a blank
ScanVocabulary ==
    { <<"[", "a", "]", "(", "U", ")">>,
      <<"[", "a", "]", "(", "U", "a", ")">>,
      <<"[", "a", "]", "(", "U", " ", ")">>,
      <<"EMOJI", " ", "V", " ">>,
      <<"EMOJI", " ", "Yukle", ":", " ", "U", " ", "a", " ">>,
      <<"**", "yukleme", " ", "linki", "**">>,
      <<"yukle">>,
      <<"U">>,
      <<" ">> }

ScanTexts == {Flatten(cs) : cs \in UpTo(MaxScanChunks, ScanVocabulary)}

\* the fullMatch of the links handed to removeDownloadLinks; <<>> is a link
\* without fullMatch
RemoveFullMatches == { <<>>, <<"[", "a", "]", "(", "U", ")">>, <<"a">> }

RemoveTexts == {Flatten(cs) : cs \in UpTo(MaxRemoveChunks, CleanVocabulary)}

RemoveLinkLists ==
    UpTo(MaxRemoveLinks, {[fullMatch |-> f] : f \in RemoveFullMatches})

LabelChars == {"a", "A", "schwa", "SCHWA", "Idot", "!", "_", ".", " "}

Labels == UpTo(MaxLabelLen, LabelChars)

Extensions == {"undefined", "docx", "pdf"}

\* the pieces the value of a filename parameter is written with
HeaderVocabulary ==
    { <<"DQ">>, <<"SQ">>, <<"report">>, <<".", "pdf">>, <<";", " ", "size">> }

HeaderParameters == { <<"filename", "=">>, <<"filename", "*", "=">> }

\* Content-Disposition values: absent, without parameter, and attachment
\* with each parameter and value
Headers ==
    { <<"null">>, <<"inline">> }
    \cup { <<"attachment", ";", " ">> \o p \o Flatten(cs) :
              p \in HeaderParameters, cs \in UpTo(MaxHeaderChunks, HeaderVocabulary) }

----------------------------------------------------------------------------
(* processContent and generateFilename as operations *)

NoText == <<>>

ParseIdle ==
    /\ content = NoText /\ downloadLinks = <<>> /\ cleanContent = NoText
NameIdle ==
    /\ templateName = NoText /\ extension = "undefined" /\ filename = NoText

\* the module just loaded: the table as written, no invocation yet
IdleScan ==
    [pc |-> "idle", text |-> NoText, k |-> 0, lastIndex |-> 0, iterations |-> 0,
     links |-> <<>>, processedUrls |-> {}]
ScanIdle ==
    /\ patternTable = DOWNLOAD_LINK_PATTERNS
    /\ scan = IdleScan
    /\ parseCalls = 0

\* MessageContentProcessor.processContent(content); templateType and
\* isTemplateRequest read no link and are left out
ProcessContent ==
    /\ phase = "input"
    /\ phase' = "done"
    /\ downloadLinks' = parseDownloadLinksWith(patternTable, content)
    /\ cleanContent' =
           removeDownloadLinks(content, parseDownloadLinksWith(patternTable, content))
    /\ patternTable' = SortPatterns(patternTable)
    /\ UNCHANGED <<content, nameVars, dlVars, scan, parseCalls, appVars>>

\* MessageContentProcessor.removeDownloadLinks(content, downloadLinks)
RemoveDownloadLinks ==
    /\ phase = "input"
    /\ phase' = "done"
    /\ cleanContent' = removeDownloadLinks(content, downloadLinks)
    /\ UNCHANGED <<content, downloadLinks, nameVars, dlVars, scanVars, appVars>>

GenerateFilename ==
    /\ phase = "input"
    /\ phase' = "done"
    /\ filename' = generateFilename(templateName, extension)
    /\ UNCHANGED <<templateName, extension, parseVars, dlVars, scanVars, appVars>>

----------------------------------------------------------------------------
(* processContent with the loops of parseDownloadLinks taken step by step *)

\* match[i] of a regex that has no group i
Undefined == <<"undefined">>

Group(m, i) == IF i \in DOMAIN m.groups THEN m.groups[i] ELSE Undefined

\* match[pattern.textIndex].trim() on undefined: a TypeError
ThrowsOnText(pattern, m) ==
    /\ pattern.textIndex # NullIndex
    /\ Group(m, pattern.textIndex) = Undefined

\* lastIndex left where the match begins, as after a match of length zero
LastIndexAtMatchStart(m) == m.index

\* regex.lastIndex after exec of the global regex has returned the match m
LastIndexAfter(m) == m.end

\* processContent(text) up to the first regex.exec: the table is sorted in
\* place and the first pattern's regex is built anew, its lastIndex 0
StartParse(text) ==
    /\ scan.pc \in {"idle", "returned"}
    /\ parseCalls < MaxParseCalls
    /\ parseCalls' = parseCalls + 1
    /\ patternTable' = SortPatterns(patternTable)
    /\ scan' = [pc |-> "loop", text |-> text, k |-> 1, lastIndex |-> 1,
                iterations |-> 0, links |-> <<>>, processedUrls |-> {}]
    /\ content' = text
    /\ phase' = "input"
    /\ downloadLinks' = <<>>
    /\ cleanContent' = NoText
    /\ UNCHANGED <<nameVars, dlVars, appVars>>

\* regex.exec(content) returns a match: one pass through the while body
ScanMatch ==
    /\ scan.pc = "loop"
    /\ scan.k <= Len(patternTable)
    /\ scan.iterations <= Len(scan.text)
    /\ LET pattern == patternTable[scan.k]
           m == Exec(pattern.regex, scan.text, scan.lastIndex)
           url == Group(m, pattern.urlIndex)
           next == [scan EXCEPT !.lastIndex = LastIndexAfter(m),
                                !.iterations = @ + 1]
       IN  /\ m # NoMatch
           /\ scan' =
                  IF url \in scan.processedUrls \/ url = Undefined \/ ~ValidUrl(url)
                  THEN next
                  ELSE IF ThrowsOnText(pattern, m)
                       THEN [next EXCEPT !.pc = "threw"]
                       ELSE [next EXCEPT
                                !.links = Append(@, MakeLink(pattern, m, scan.text)),
                                !.processedUrls = @ \cup {url}]
    /\ UNCHANGED <<phase, parseVars, nameVars, dlVars, patternTable, parseCalls, appVars>>

\* regex.exec(content) returns null: the while loop ends, forEach goes on to
\* the next pattern and builds its regex
ScanNoMatch ==
    /\ scan.pc = "loop"
    /\ scan.k <= Len(patternTable)
    /\ Exec(patternTable[scan.k].regex, scan.text, scan.lastIndex) = NoMatch
    /\ scan' = [scan EXCEPT !.k = @ + 1, !.lastIndex = 1, !.iterations = 0]
    /\ UNCHANGED <<phase, parseVars, nameVars, dlVars, patternTable, parseCalls, appVars>>

\* forEach is through: parseDownloadLinks returns the sorted links and
\* processContent calls removeDownloadLinks
ScanReturn ==
    /\ scan.pc = "loop"
    /\ scan.k > Len(patternTable)
    /\ scan' = [scan EXCEPT !.pc = "returned"]
    /\ phase' = "done"
    /\ downloadLinks' = SortLinks(scan.links)
    /\ cleanContent' = removeDownloadLinks(scan.text, SortLinks(scan.links))
    /\ UNCHANGED <<content, nameVars, dlVars, patternTable, parseCalls, appVars>>

----------------------------------------------------------------------------
(* TemplateDownloadHandler.downloadFromUrl *)
(*                                                                         *)
(* File names and Content-Disposition values are sequences of tokens:      *)
(*   "filename"            the word filename                               *)
(*   "=" ";" "*" "." " "   the literal characters                          *)
(*   "DQ" "SQ"             the double and the single quote                 *)
(*   "\n"                  a line break                                    *)
(*   any other token       a run of other characters                       *)

CallIds == 1..MaxCalls

\* a URL: whether it has a scheme and host, and the segments of its path
\* ("https://h/t/" has the segments "t" and "")
AbsoluteUrl(path) == [absolute |-> TRUE, path |-> path]
RelativeUrl(path) == [absolute |-> FALSE, path |-> path]

NoUrl == [absolute |-> FALSE, path |-> <<>>]

\* the URLs downloads are asked for
Urls ==
    { AbsoluteUrl(<<<<"t">>, <<"report">>>>),
      RelativeUrl(<<<<"t">>, <<"a", ".", "docx">>>>) }

\* new URL(url) throws a TypeError on a URL without scheme and host
NewUrlThrows(url) == ~url.absolute

\* new URL(url).pathname.split('/').pop()
LastPathSegment(url) ==
    IF url.path = <<>> THEN <<>> ELSE url.path[Len(url.path)]

\* the filename argument; Null is the default parameter value
Null == <<"null">>
FilenameArgs == {Null, <<"form">>}

Quotes == {"DQ", "SQ"}
HeaderStops == {";", "\n"}

\* ((['"]).*?\2|[^;\n]*) at position q: the end of the capture (exclusive)
DispositionValueEnd(h, q) ==
    LET close == IF q <= Len(h) /\ h[q] \in Quotes
                 THEN FirstAt(h, q + 1, {h[q]}) ELSE 0
        break == FirstAt(h, q, {"\n"})
        stop == FirstAt(h, q, HeaderStops)
    IN  IF close # 0 /\ (break = 0 \/ break > close) THEN close + 1
        ELSE IF stop = 0 THEN Len(h) + 1 ELSE stop

\* contentDisposition.match(/filename[^;=\n]*=((['"]).*?\2|[^;\n]*)/): the
\* capture match[1] of the leftmost match; <<>> when nothing matches
DispositionCapture(h) ==
    LET starts == {i \in 1..Len(h) :
                      /\ h[i] = "filename"
                      /\ LET e == FirstAt(h, i + 1, HeaderStops \cup {"="})
                         IN  e # 0 /\ h[e] = "="}
    IN  IF starts = {} THEN <<>>
        ELSE LET i == CHOOSE k \in starts : \A m \in starts : k <= m
                 e == FirstAt(h, i + 1, {"="})
             IN  SubSeq(h, e + 1, DispositionValueEnd(h, e + 1) - 1)

\* match[1].replace(/['"]/g, '')
RemoveQuotes(s) == SelectSeq(s, LAMBDA t : t \notin Quotes)

\* lines 143-150: the name the header gives; <<>> when it gives none
DispositionFilename(h) ==
    IF h = Null THEN <<>> ELSE RemoveQuotes(DispositionCapture(h))

AttachmentReportPdf ==
    <<"attachment", ";", " ", "filename", "=", "DQ", "report", ".", "pdf", "DQ">>

\* the Content-Disposition header of a response; Null when it has none
Dispositions == {Null, AttachmentReportPdf}

\* what a server may answer: status line and Content-Disposition
Responses ==
    {[status |-> 200, statusText |-> "OK", disposition |-> d] : d \in Dispositions}
    \cup {[status |-> 404, statusText |-> "Not Found", disposition |-> Null]}

\* Response.ok
ResponseOk(response) == response.status >= 200 /\ response.status <= 299

\* body sizes in bytes
BlobSizes == {0, 5}

NoResponse == [status |-> 0, statusText |-> "", disposition |-> Null]
NoError == [prefix |-> "", text |-> "", status |-> 0, statusText |-> ""]
NoBlob == [from |-> 0, size |-> 0]

\* the status check left out
StatusCheckSkipped(response) == FALSE

\* if (!response.ok) throw ...
ThrowsOnStatus(response) == ~ResponseOk(response)

\* new Error(`Yükləmə xətası: ${error.message}`) around
\* new Error(`Download failed: ${response.status} ${response.statusText}`)
HttpError(response) ==
    [prefix |-> "Yukleme xetasi: ", text |-> "Download failed: ",
     status |-> response.status, statusText |-> response.statusText]

\* the same wrapper around the TypeError that fetch, response.blob() or
\* new URL(url) throws
TransportError(what) ==
    [prefix |-> "Yukleme xetasi: ", text |-> what, status |-> 0, statusText |-> ""]

\* lines 142-156: the name after the header and the URL have been asked;
\* only called when new URL(url) is not reached or does not throw
ResolveFilename(arg, response, url) ==
    LET fromHeader ==
            IF arg # Null /\ arg # <<>> THEN arg
            ELSE DispositionFilename(response.disposition)
    IN  IF fromHeader # <<>> THEN fromHeader
        ELSE IF LastPathSegment(url) # <<>> THEN LastPathSegment(url)
        ELSE <<"download">>

\* whether lines 152-155 are reached and new URL(url) throws there
UrlParseThrows(arg, response, url) ==
    /\ arg = Null \/ arg = <<>>
    /\ DispositionFilename(response.disposition) = <<>>
    /\ NewUrlThrows(url)

\* an extension appended to every name
AlwaysAppendExtension(name) == name \o <<".", "docx">>

\* lines 159-161: if (!filename.includes('.')) filename += '.docx'
EnsureExtension(name) ==
    IF Contains(name, <<".">>) THEN name ELSE name \o <<".", "docx">>

\* a catch block that returns instead of throwing
CatchAndReturn(call, rejection) == [call EXCEPT !.pc = "resolved"]

\* lines 181-184: console.error, then throw the wrapped error
Catch(call, rejection) ==
    [call EXCEPT !.pc = "rejected", !.error = rejection]

IdleCall ==
    [pc |-> "idle", url |-> NoUrl, filename |-> Null, response |-> NoResponse,
     blob |-> NoBlob, resolved |-> <<>>, failure |-> "none", error |-> NoError,
     objectUrl |-> 0, timer |-> FALSE]

DownloadIdle ==
    /\ calls = [c \in CallIds |-> IdleCall]
    /\ objectUrls = <<>>
    /\ anchors = {}
    /\ saves = <<>>
    /\ fetches = [c \in CallIds |-> 0]

\* downloadFromUrl(url, filename) up to its first await: the GET is issued
CallDownload(c, url, arg) ==
    /\ calls[c].pc = "idle"
    /\ calls' = [calls EXCEPT ![c] = [@ EXCEPT !.pc = "awaitFetch", !.url = url,
                                               !.filename = arg]]
    /\ fetches' = [fetches EXCEPT ![c] = @ + 1]
    /\ UNCHANGED <<objectUrls, anchors, saves>>

\* fetch rejects (network failure): the catch block rethrows
FetchRejects(c) ==
    /\ calls[c].pc = "awaitFetch"
    /\ calls' = [calls EXCEPT ![c] =
                    Catch([@ EXCEPT !.failure = "fetch"],
                          TransportError("Failed to fetch"))]
    /\ UNCHANGED <<objectUrls, anchors, saves, fetches>>

\* fetch resolves with a response: the status check, then response.blob()
FetchResolves(c, response) ==
    /\ calls[c].pc = "awaitFetch"
    /\ calls' = [calls EXCEPT ![c] =
                    IF ThrowsOnStatus(response)
                    THEN Catch([@ EXCEPT !.response = response, !.failure = "status"],
                               HttpError(response))
                    ELSE [@ EXCEPT !.pc = "awaitBlob", !.response = response]]
    /\ UNCHANGED <<objectUrls, anchors, saves, fetches>>

\* response.blob() rejects (the body cannot be read)
BlobRejects(c) ==
    /\ calls[c].pc = "awaitBlob"
    /\ calls' = [calls EXCEPT ![c] =
                    Catch([@ EXCEPT !.failure = "body"],
                          TransportError("Failed to read body"))]
    /\ UNCHANGED <<objectUrls, anchors, saves, fetches>>

\* the object URL the timer callback of call c revokes: the one its own
\* closure holds
LatestObjectUrl(c) == Len(objectUrls)
OwnObjectUrl(c) == calls[c].objectUrl

\* response.blob() resolves: lines 141-179 run without a further await
BlobResolves(c, size) ==
    /\ calls[c].pc = "awaitBlob"
    /\ LET call == [calls[c] EXCEPT !.blob = [from |-> c, size |-> size]]
           resolved == ResolveFilename(call.filename, call.response, call.url)
           download == EnsureExtension(resolved)
           id == Len(objectUrls) + 1
       IN  IF UrlParseThrows(call.filename, call.response, call.url)
           THEN /\ calls' = [calls EXCEPT ![c] =
                                Catch([call EXCEPT !.failure = "url"],
                                      TransportError("Invalid URL"))]
                /\ UNCHANGED <<objectUrls, anchors, saves>>
           ELSE /\ objectUrls' = Append(objectUrls,
                                        [owner |-> c, blob |-> call.blob,
                                         revokedBy |-> <<>>])
                /\ anchors' = anchors \cup
                                {[owner |-> c, href |-> id, download |-> download]}
                /\ saves' = Append(saves, [call |-> c, href |-> id,
                                           download |-> download,
                                           blob |-> call.blob])
                /\ calls' = [calls EXCEPT ![c] = [call EXCEPT !.pc = "resolved",
                                                              !.resolved = resolved,
                                                              !.objectUrl = id,
                                                              !.timer = TRUE]]
    /\ UNCHANGED fetches

\* a timer callback that releases nothing
RevokeNothing(url, c) == url

\* window.URL.revokeObjectURL(downloadUrl), called by the timer of call c
RevokeObjectURL(url, c) == [url EXCEPT !.revokedBy = Append(@, c)]

\* the setTimeout callback, 100 ms after the click: revokeObjectURL and
\* removeChild on the URL and the anchor of the call's own closure
Cleanup(c) ==
    /\ calls[c].timer
    /\ objectUrls' = [objectUrls EXCEPT ![OwnObjectUrl(c)] = RevokeObjectURL(@, c)]
    /\ anchors' = {a \in anchors : a.href # OwnObjectUrl(c)}
    /\ calls' = [calls EXCEPT ![c].timer = FALSE]
    /\ UNCHANGED <<saves, fetches>>

----------------------------------------------------------------------------
(* The chat view's own parseDownloadLinks (SmartDashboard) *)

\* the patterns array, in its order
InlinePatterns == <<"markdown", "inlineBold", "inlineEmoji">>

\* the body of the while loop: a link for match[2], else one for match[1],
\* else nothing
InlineLinks(s, m) ==
    IF Len(m.groups) >= 2 /\ m.groups[2] # <<>>
    THEN << [text |-> m.groups[1], url |-> m.groups[2],
             fullMatch |-> FullMatch(s, m), type |-> "markdown"] >>
    ELSE IF Len(m.groups) >= 1 /\ m.groups[1] # <<>>
    THEN << [text |-> <<"Yukle">>, url |-> m.groups[1],
             fullMatch |-> FullMatch(s, m), type |-> "direct"] >>
    ELSE <<>>

RECURSIVE InlineLinksOfMatches(_, _)
InlineLinksOfMatches(s, matches) ==
    IF matches = <<>> THEN <<>>
    ELSE InlineLinks(s, Head(matches)) \o InlineLinksOfMatches(s, Tail(matches))

\* patterns.forEach over a fresh RegExp each, links pushed in that order
RECURSIVE InlineForEachPattern(_, _)
InlineForEachPattern(patterns, s) ==
    IF patterns = <<>> THEN <<>>
    ELSE InlineLinksOfMatches(s, ExecAll(Head(patterns), s, 1))
         \o InlineForEachPattern(Tail(patterns), s)

InlineParseDownloadLinks(s) == InlineForEachPattern(InlinePatterns, s)

InlineVocabulary == {
    <<"[", "a", "]", "(", "U", ")">>,
    <<"**", "yukleme", " ", "linki", ":", "**">>,
    <<"EMOJI", " ", "a", ":">>,
    <<"U">>, <<"V">>, <<"template">>, <<"a">>, <<" ">>, <<":">> }

InlineTexts == {Flatten(cs) : cs \in UpTo(MaxInlineChunks, InlineVocabulary)}

\* parseDownloadLinks(message.content) when a message is rendered
ParseInline ==
    /\ phase = "input"
    /\ phase' = "done"
    /\ downloadLinks' = InlineParseDownloadLinks(content)
    /\ UNCHANGED <<content, cleanContent, nameVars, dlVars, scanVars, appVars>>

----------------------------------------------------------------------------
(* The chat view's downloads of a link: SmartDashboard.handleDownloadFromLink
   and documentService.handleDownloadLink *)

LinkHandlers == {"handleDownloadFromLink", "handleDownloadLink"}

\* the filename parameter's default value
DefaultFilename(handler) ==
    IF handler = "handleDownloadFromLink" THEN <<"template">> ELSE <<"download">>

\* the filename argument; Undefined when the caller passes none
LinkFilenameArgs == {Undefined, <<"form">>}

\* the Content-Disposition headers of the answers
LinkDispositions ==
    { Null,
      AttachmentReportPdf,
      <<"attachment">>,
      <<"attachment", ";", " ", "filename", "=">>,
      <<"attachment", ";", " ", "filename", "*", "=", "report">>,
      <<"inline", ";", " ", "filename", "=", "SQ", "a", " ", "b", "SQ">> }

LinkResponses ==
    {[status |-> 200, statusText |-> "OK", disposition |-> d] : d \in LinkDispositions}
    \cup {[status |-> 404, statusText |-> "Not Found", disposition |-> Null]}

NoSave == <<"no save">>

\* the filename after the header has been looked at: contentDisposition &&
\* contentDisposition.includes('filename='), then match and match[1]
FilenameAfterHeader(current, h) ==
    IF h # Null /\ Contains(h, <<"filename", "=">>) /\ DispositionCapture(h) # <<>>
    THEN RemoveQuotes(DispositionCapture(h))
    ELSE current

\* whether the blob is refused: handleDownloadFromLink throws on
\* !blob || blob.size === 0, handleDownloadLink has no such test
EmptyBlobThrows(handler, size) ==
    handler = "handleDownloadFromLink" /\ size = 0

\* the catch block: handleDownloadFromLink shows an error toast and returns,
\* handleDownloadLink logs and throws the error again
LinkCatch(call) ==
    IF call.handler = "handleDownloadFromLink"
    THEN [call EXCEPT !.pc = "resolved", !.toast = "error"]
    ELSE [call EXCEPT !.pc = "rejected"]

IdleLinkCall ==
    [pc |-> "idle", handler |-> "", url |-> NoUrl, arg |-> Undefined,
     filename |-> <<>>, response |-> NoResponse, saved |-> NoSave,
     toast |-> "none", revoked |-> FALSE, timer |-> FALSE]

LinkIdle == linkCall = IdleLinkCall

\* handler(url, filename): the default value stands in for a missing
\* argument; fetch(url, {method: 'GET', credentials: 'include'}) is issued
CallLinkDownload(handler, url, arg) ==
    /\ linkCall.pc = "idle"
    /\ linkCall' = [linkCall EXCEPT
           !.pc = "awaitFetch", !.handler = handler, !.url = url, !.arg = arg,
           !.filename = IF arg = Undefined THEN DefaultFilename(handler) ELSE arg]

\* fetch rejects
LinkFetchRejects ==
    /\ linkCall.pc = "awaitFetch"
    /\ linkCall' = LinkCatch(linkCall)

\* fetch resolves: if (!response.ok) throw, then response.blob()
LinkFetchResolves(response) ==
    /\ linkCall.pc = "awaitFetch"
    /\ linkCall' =
           IF ResponseOk(response)
           THEN [linkCall EXCEPT !.pc = "awaitBlob", !.response = response]
           ELSE LinkCatch([linkCall EXCEPT !.response = response])

\* response.blob() rejects
LinkBlobRejects ==
    /\ linkCall.pc = "awaitBlob"
    /\ linkCall' = LinkCatch(linkCall)

\* response.blob() resolves: the size test, the header, the anchor and its
\* click; handleDownloadFromLink leaves the cleanup to a timer and shows a
\* toast, handleDownloadLink revokes the object URL at once and returns true
LinkBlobResolves(size) ==
    /\ linkCall.pc = "awaitBlob"
    /\ linkCall' =
           IF EmptyBlobThrows(linkCall.handler, size) THEN LinkCatch(linkCall)
           ELSE LET name == FilenameAfterHeader(linkCall.filename,
                                                linkCall.response.disposition)
                    own == linkCall.handler = "handleDownloadFromLink"
                IN  [linkCall EXCEPT
                       !.pc = "resolved", !.filename = name, !.saved = name,
                       !.timer = own, !.revoked = ~own,
                       !.toast = IF own THEN "success" ELSE "none"]

\* the timer of handleDownloadFromLink fires: revokeObjectURL, removeChild
LinkCleanup ==
    /\ linkCall.timer
    /\ linkCall' = [linkCall EXCEPT !.timer = FALSE, !.revoked = TRUE]

----------------------------------------------------------------------------
(* The auth store, the routes of App and the Login form *)

TheUser == <<"user">>

\* the store as create() builds it
InitialStore ==
    [user |-> Null, isAuthenticated |-> FALSE, isLoading |-> FALSE, error |-> Null]

NoGuard == [mounted |-> FALSE, checking |-> FALSE, id |-> 0]

\* the page before App is mounted
InitialPage ==
    [loaded |-> FALSE, route |-> "", guard |-> NoGuard, navTimer |-> FALSE,
     unloading |-> FALSE, toast |-> "none"]

InitialHistory ==
    [issued |-> 0, loginsCompleted |-> 0, loginHolds |-> FALSE,
     logoutResult |-> "none", logoutSeen |-> "none"]

\* before the app is loaded, with or without a session cookie
AuthBegin ==
    /\ authStore = InitialStore
    /\ session \in BOOLEAN
    /\ requests = {}
    /\ page = InitialPage
    /\ authHistory = InitialHistory

AuthIdle == AuthBegin /\ session = FALSE

\* a request as api.get / api.post sends it; guard is the ProtectedRoute
\* instance that called checkAuth (0: none), good whether the credentials of
\* a login are right, loginsBefore the logins completed when it was issued
NewRequest(id, kind, guard, good) ==
    [id |-> id, kind |-> kind, guard |-> guard, good |-> good,
     stage |-> "sent", answer |-> "none",
     loginsBefore |-> authHistory.loginsCompleted]

\* a ProtectedRoute instance after its mount effect: checking is true and
\* checkAuth() has been called
MountedGuard(id) == [mounted |-> TRUE, checking |-> TRUE, id |-> id]

\* what ProtectedRoute returns
RenderIgnoringChecking(guard, store) ==
    IF store.isAuthenticated THEN "children" ELSE "redirect"

Render(guard, store) ==
    IF guard.checking THEN "loading"
    ELSE IF store.isAuthenticated THEN "children" ELSE "redirect"

\* App is mounted on the route of the address bar; effects run children
\* first: the checkAuth of ProtectedRoute, then the checkAuth of App
AppLoad(route) ==
    /\ ~page.loaded
    /\ IF route = "dashboard"
       THEN /\ page' = [page EXCEPT !.loaded = TRUE, !.route = route,
                                    !.guard = MountedGuard(1)]
            /\ requests' = { NewRequest(1, "checkAuth", 1, FALSE),
                             NewRequest(2, "checkAuth", 0, FALSE) }
            /\ authHistory' = [authHistory EXCEPT !.issued = 2]
       ELSE /\ page' = [page EXCEPT !.loaded = TRUE, !.route = route]
            /\ requests' = { NewRequest(1, "checkAuth", 0, FALSE) }
            /\ authHistory' = [authHistory EXCEPT !.issued = 1]
    /\ UNCHANGED <<authStore, session>>

\* the answers the server may give to a request in the state of its session
ServerAnswers(r) ==
    CASE r.kind = "login" -> IF r.good THEN {"ok"} ELSE {"401", "error"}
      [] r.kind = "logout" -> IF session THEN {"ok", "error"} ELSE {"ok", "401"}
      [] r.kind = "checkAuth" -> IF session THEN {"ok"} ELSE {"no", "401"}

\* the session after the server has given the answer
SessionAfter(r, answer) ==
    CASE r.kind = "login" /\ answer = "ok" -> TRUE
      [] r.kind = "logout" /\ answer = "ok" -> FALSE
      [] OTHER -> session

\* the server handles a request
ServerHandles(r, answer) ==
    /\ r \in requests /\ r.stage = "sent"
    /\ answer \in ServerAnswers(r)
    /\ session' = SessionAfter(r, answer)
    /\ requests' = (requests \ {r}) \cup {[r EXCEPT !.stage = "answered", !.answer = answer]}
    /\ UNCHANGED <<authStore, page, authHistory>>

\* the session ends on the server
SessionExpires ==
    /\ session
    /\ session' = FALSE
    /\ UNCHANGED <<authStore, requests, page, authHistory>>

\* what the client may see of a request: the answer, or the failure of the
\* transport
Seen(r) == IF r.stage = "answered" THEN {r.answer, "error"} ELSE {"error"}

\* the response interceptor: a 401 sets window.location.href = '/login'
Intercepted(pg, seen) ==
    IF seen = "401" THEN [pg EXCEPT !.unloading = TRUE] ELSE pg

\* Login.handleSubmit up to the await: the form is shown by PublicRoute and
\* its button is enabled; login() sets isLoading and posts the credentials
SubmitLogin(good) ==
    /\ page.loaded /\ page.route = "login"
    /\ ~authStore.isAuthenticated /\ ~authStore.isLoading
    /\ authHistory.issued < MaxRequests
    /\ authStore' = [authStore EXCEPT !.isLoading = TRUE, !.error = Null]
    /\ requests' = requests \cup {NewRequest(authHistory.issued + 1, "login", 0, good)}
    /\ authHistory' = [authHistory EXCEPT !.issued = @ + 1]
    /\ UNCHANGED <<session, page>>

\* error.response?.data?.error || 'Giris xetasi'
LoginErrorMessage(seen) ==
    IF seen = "401" THEN <<"server", "message">> ELSE <<"Giris xetasi">>

\* login() after the await, and then the rest of handleSubmit
LoginSettles(r, seen) ==
    /\ r \in requests /\ r.kind = "login"
    /\ seen \in Seen(r)
    /\ requests' = requests \ {r}
    /\ IF seen = "ok"
       THEN /\ authStore' = [user |-> TheUser, isAuthenticated |-> TRUE,
                             isLoading |-> FALSE, error |-> Null]
            /\ page' = [page EXCEPT !.toast = "success", !.navTimer = TRUE]
            /\ authHistory' = [authHistory EXCEPT
                   !.loginsCompleted = @ + 1, !.loginHolds = TRUE]
       ELSE /\ authStore' = [user |-> Null, isAuthenticated |-> FALSE,
                             isLoading |-> FALSE, error |-> LoginErrorMessage(seen)]
            /\ page' = [Intercepted(page, seen) EXCEPT !.toast = "error"]
            /\ UNCHANGED authHistory
    /\ UNCHANGED session

\* navigate(to): a ProtectedRoute is mounted when the route becomes the
\* dashboard, unmounted when it becomes the login page
Navigated(pg, to) ==
    IF to = pg.route THEN pg
    ELSE IF to = "dashboard"
    THEN [pg EXCEPT !.route = to, !.guard = MountedGuard(authHistory.issued + 1)]
    ELSE [pg EXCEPT !.route = to, !.guard = NoGuard]

\* the requests after navigate(to): the checkAuth of a ProtectedRoute that
\* has been mounted
RequestsAfterNavigation(to) ==
    IF to = "dashboard" /\ page.route # "dashboard"
    THEN requests \cup {NewRequest(authHistory.issued + 1, "checkAuth",
                                    authHistory.issued + 1, FALSE)}
    ELSE requests

IssuedAfterNavigation(to) ==
    IF to = "dashboard" /\ page.route # "dashboard"
    THEN authHistory.issued + 1 ELSE authHistory.issued

\* setTimeout(() => navigate('/dashboard'), 100) of handleSubmit fires
NavTimerFires ==
    /\ page.navTimer
    /\ page.route = "dashboard" \/ authHistory.issued < MaxRequests
    /\ page' = [Navigated(page, "dashboard") EXCEPT !.navTimer = FALSE]
    /\ requests' = RequestsAfterNavigation("dashboard")
    /\ authHistory' = [authHistory EXCEPT !.issued = IssuedAfterNavigation("dashboard")]
    /\ UNCHANGED <<authStore, session>>

\* PublicRoute: <Navigate to="/dashboard" replace /> when isAuthenticated
PublicRedirect ==
    /\ page.loaded /\ page.route = "login" /\ authStore.isAuthenticated
    /\ authHistory.issued < MaxRequests
    /\ page' = Navigated(page, "dashboard")
    /\ requests' = RequestsAfterNavigation("dashboard")
    /\ authHistory' = [authHistory EXCEPT !.issued = IssuedAfterNavigation("dashboard")]
    /\ UNCHANGED <<authStore, session>>

\* ProtectedRoute: <Navigate to="/login" replace />
ProtectedRedirect ==
    /\ page.guard.mounted
    /\ Render(page.guard, authStore) = "redirect"
    /\ page' = Navigated(page, "login")
    /\ UNCHANGED <<authStore, session, requests, authHistory>>

\* the store after checkAuth(): authenticated && user, else, catch
AfterCheckAuth(store, seen) ==
    IF seen = "ok"
    THEN [store EXCEPT !.user = TheUser, !.isAuthenticated = TRUE, !.isLoading = FALSE]
    ELSE [store EXCEPT !.user = Null, !.isAuthenticated = FALSE, !.isLoading = FALSE]

\* .finally(() => setChecking(false)) run at once, whatever checkAuth does
GuardSetsCheckingAtOnce(guard, r) == [guard EXCEPT !.checking = FALSE]

\* .finally(() => setChecking(false)) of the instance that called checkAuth
GuardAfterCheckAuth(guard, r) ==
    IF guard.mounted /\ guard.id = r.guard
    THEN [guard EXCEPT !.checking = FALSE] ELSE guard

\* checkAuth() after the await
CheckAuthSettles(r, seen) ==
    /\ r \in requests /\ r.kind = "checkAuth"
    /\ seen \in Seen(r)
    /\ requests' = requests \ {r}
    /\ authStore' = AfterCheckAuth(authStore, seen)
    /\ page' = [Intercepted(page, seen) EXCEPT
           !.guard = GuardAfterCheckAuth(page.guard, r)]
    /\ authHistory' = [authHistory EXCEPT
           !.loginHolds = @ /\ ~(seen # "ok" /\ r.loginsBefore = authHistory.loginsCompleted)]
    /\ UNCHANGED session

\* handleLogout up to the await: the buttons of the dashboard are there
\* when ProtectedRoute renders its children; logout() sets isLoading
ClickLogout ==
    /\ page.guard.mounted
    /\ Render(page.guard, authStore) = "children"
    /\ authHistory.issued < MaxRequests
    /\ authStore' = [authStore EXCEPT !.isLoading = TRUE]
    /\ requests' = requests \cup {NewRequest(authHistory.issued + 1, "logout", 0, FALSE)}
    /\ authHistory' = [authHistory EXCEPT !.issued = @ + 1, !.loginHolds = FALSE]
    /\ UNCHANGED <<session, page>>

\* a finally block that leaves the store alone when the request failed
LogoutClearsOnSuccessOnly(store, seen) ==
    IF seen = "ok" THEN InitialStore ELSE store

\* the finally block of logout()
LogoutFinally(store, seen) ==
    [user |-> Null, isAuthenticated |-> FALSE, error |-> Null, isLoading |-> FALSE]

\* the catch block of logout(): the error is logged, not thrown
LogoutResult(seen) == "resolved"

\* logout() after the await, and then the rest of handleLogout
LogoutSettles(r, seen) ==
    /\ r \in requests /\ r.kind = "logout"
    /\ seen \in Seen(r)
    /\ requests' = requests \ {r}
    /\ authStore' = LogoutFinally(authStore, seen)
    /\ authHistory' = [authHistory EXCEPT
           !.logoutResult = LogoutResult(seen), !.logoutSeen = seen]
    /\ page' = IF LogoutResult(seen) = "resolved"
               THEN [Navigated(Intercepted(page, seen), "login") EXCEPT !.toast = "logout"]
               ELSE Intercepted(page, seen)
    /\ UNCHANGED session

\* the navigation the interceptor started replaces the page: its store, its
\* components and the requests it waits for are gone
PageUnload ==
    /\ page.unloading
    /\ authStore' = InitialStore
    /\ requests' = {}
    /\ page' = InitialPage
    /\ authHistory' = InitialHistory
    /\ UNCHANGED session

----------------------------------------------------------------------------
(* The chat view: SmartDashboard's questions and conversations *)

\* currentConversation = null
NoConversation == 0

\* the conversations of the list on the left
ListedConversations == {1, 2}

\* the conversation_id the server gives to the first question of a new
\* conversation
NewConversationId(r) == 2 + r.id

\* the component after its first render; thread counts the conversations
\* shown one after the other and conversationThread is the thread in which
\* currentConversation was set (both history)
InitialChat ==
    [messages |-> <<>>, isLoading |-> FALSE, currentConversation |-> NoConversation,
     context |-> 0, toast |-> "none", asked |-> 0,
     thread |-> 0, conversationThread |-> 0]

ChatIdle == chat = InitialChat /\ asks = {} /\ loads = {}

Message(type, thread) == [type |-> type, thread |-> thread]

HasUserMessage == \E i \in 1..Len(chat.messages) : chat.messages[i].type = "user"

HasDocumentButtons == \E i \in 1..Len(chat.messages) : chat.messages[i].type = "system"

\* a call that has reached its await: the values of its closure
NewAsk(handler) ==
    [id |-> chat.asked + 1, handler |-> handler, stage |-> "sent",
     conversation |-> chat.currentConversation, thread |-> chat.thread]

\* handleSendMessage with a non-empty question, up to the await
SendMessage ==
    /\ ~chat.isLoading
    /\ chat.asked < MaxAsks
    /\ chat' = [chat EXCEPT
           !.isLoading = TRUE,
           !.messages = Append(@, Message("user", chat.thread)),
           !.context = @ + 1,
           !.asked = @ + 1]
    /\ asks' = asks \cup {NewAsk("send")}
    /\ UNCHANGED loads

\* handleSelectDocument from a button of a system message, up to the
\* await: nothing is tested but the presence of a user message
SelectDocument ==
    /\ HasDocumentButtons /\ HasUserMessage
    /\ chat.asked < MaxAsks
    /\ chat' = [chat EXCEPT !.isLoading = TRUE, !.asked = @ + 1]
    /\ asks' = asks \cup {NewAsk("select")}
    /\ UNCHANGED loads

AskAnswers == {"clarify", "answer", "error"}

\* setMessages(prev => [...prev, message]) of handleSendMessage
AppendReply(messages, r, type) == Append(messages, Message(type, r.thread))

\* setMessages(prev => [...prev.filter(m => m.type !== 'system'), botMessage])
ReplaceSystemMessages(messages, r) ==
    Append(SelectSeq(messages, LAMBDA m : m.type # "system"), Message("bot", r.thread))

\* the id the answer carries: that of the conversation the question was
\* sent with, or a new one
ConversationIdOf(r) ==
    IF r.conversation # NoConversation THEN r.conversation ELSE NewConversationId(r)

\* askQuestion of handleSendMessage settles: clarification, answer or catch
SendSettles(r, answer) ==
    /\ r \in asks /\ r.handler = "send" /\ r.stage = "sent"
    /\ UNCHANGED loads
    /\ CASE answer = "clarify" ->
              /\ chat' = [chat EXCEPT
                     !.messages = AppendReply(@, r, "system"), !.isLoading = FALSE]
              /\ asks' = asks \ {r}
         [] answer = "answer" ->
              /\ chat' = [chat EXCEPT
                     !.messages = AppendReply(@, r, "bot"),
                     !.context = @ + 1,
                     !.currentConversation =
                         IF r.conversation # ConversationIdOf(r)
                         THEN ConversationIdOf(r) ELSE @,
                     !.conversationThread =
                         IF r.conversation # ConversationIdOf(r) THEN r.thread ELSE @]
              /\ asks' = (asks \ {r}) \cup {[r EXCEPT !.stage = "awaitList"]}
         [] answer = "error" ->
              /\ chat' = [chat EXCEPT
                     !.messages = AppendReply(@, r, "error"), !.isLoading = FALSE]
              /\ asks' = asks \ {r}

\* await loadConversations() of handleSendMessage settles (it catches its
\* own failure), then the finally block
ListSettles(r) ==
    /\ r \in asks /\ r.stage = "awaitList"
    /\ chat' = [chat EXCEPT !.isLoading = FALSE]
    /\ asks' = asks \ {r}
    /\ UNCHANGED loads

\* askQuestion of handleSelectDocument settles
SelectSettles(r, answer) ==
    /\ r \in asks /\ r.handler = "select" /\ r.stage = "sent"
    /\ chat' = IF answer # "error"
               THEN [chat EXCEPT
                       !.messages = ReplaceSystemMessages(@, r), !.isLoading = FALSE]
               ELSE [chat EXCEPT !.toast = "error", !.isLoading = FALSE]
    /\ asks' = asks \ {r}
    /\ UNCHANGED loads

\* handleLoadConversation(conv), up to the await
LoadConversation(conv) ==
    /\ conv \notin loads
    /\ loads' = loads \cup {conv}
    /\ UNCHANGED <<chat, asks>>

\* getConversation settles: the stored exchange is shown, or a toast
LoadSettles(conv, ok) ==
    /\ conv \in loads
    /\ loads' = loads \ {conv}
    /\ IF ok
       THEN LET next == IF conv = chat.currentConversation
                        THEN chat.thread ELSE chat.thread + 1
            IN  /\ next <= MaxThreads
                /\ chat' = [chat EXCEPT
                       !.messages = <<Message("user", next), Message("bot", next)>>,
                       !.currentConversation = conv,
                       !.context = 2,
                       !.thread = next, !.conversationThread = next]
       ELSE chat' = [chat EXCEPT !.toast = "load failed"]
    /\ UNCHANGED asks

\* handleNewConversation
NewConversation ==
    /\ chat.thread < MaxThreads
    /\ chat' = [chat EXCEPT
           !.messages = <<>>, !.currentConversation = NoConversation,
           !.context = 0,
           !.thread = @ + 1, !.conversationThread = chat.thread + 1]
    /\ UNCHANGED <<asks, loads>>

----------------------------------------------------------------------------
(* FileManagement: the list of documents, its filters and its selection *)

Docs == 1..MaxDocs

\* the documents by id: the odd ones have a name that holds the query "a",
\* the first is a contract and the others are reports, the later the id the
\* later the upload, the smaller the file and the later the name
DocMatches(d, query) == query = "a" /\ d % 2 = 1
DocType(d) == IF d = 1 THEN "contract" ELSE "report"
DocDate(d) == d
DocSize(d) == MaxDocs + 1 - d
DocNameRank(d) == d
\* getTypeLabel without documentTypes is the type: 'contract' < 'report'
TypeLabelRank(d) == IF DocType(d) = "contract" THEN 1 ELSE 2

\* a set of documents in the order of the server
RECURSIVE InOrder(_)
InOrder(S) ==
    IF S = {} THEN <<>>
    ELSE LET d == CHOOSE x \in S : \A y \in S : x <= y
         IN  <<d>> \o InOrder(S \ {d})

Range(seq) == {seq[i] : i \in 1..Len(seq)}

\* dateRange with '' written 0
NoRange == [start |-> 0, end |-> 0]

FilterValues ==
    [searchQuery |-> {"", "a"},
     selectedType |-> {"all", "contract"},
     dateRange |-> {NoRange, [start |-> 2, end |-> 0]},
     sort |-> {[by |-> "name", order |-> "asc"], [by |-> "size", order |-> "asc"],
               [by |-> "name", order |-> "desc"]}]

FilterFields == DOMAIN FilterValues

\* the component after its first render
InitialFiles ==
    [mounted |-> FALSE, documents |-> <<>>, filteredDocs |-> <<>>,
     selectedDocs |-> {}, isLoading |-> FALSE,
     searchQuery |-> "", selectedType |-> "all", dateRange |-> NoRange,
     sort |-> [by |-> "name", order |-> "asc"]]

FilesIdle ==
    /\ files = InitialFiles
    /\ serverDocs = Docs
    /\ searches = {}
    /\ fileOps = {}

\* the sort key of the switch on sortBy
SortKey(d, by) ==
    CASE by = "name" -> DocNameRank(d)
      [] by = "date" -> DocDate(d)
      [] by = "size" -> DocSize(d)
      [] by = "type" -> TypeLabelRank(d)
      [] OTHER -> DocNameRank(d)

\* filtered.sort(...) with the comparator of sortBy and sortOrder
SortDocs(seq, sort) ==
    SortByKeys(seq, [i \in 1..Len(seq) |->
        IF sort.order = "asc" THEN SortKey(seq[i], sort.by)
        ELSE 0 - SortKey(seq[i], sort.by)])

\* the date filter: docDate < startDate and docDate > endDate are refused
InDateRange(d, range) ==
    /\ range.start = 0 \/ DocDate(d) >= range.start
    /\ range.end = 0 \/ DocDate(d) <= range.end

\* filterAndSortDocuments from the type filter on, with the values of the
\* closure c
FilterAndSort(base, c) ==
    LET typed == IF c.selectedType # "all"
                 THEN SelectSeq(base, LAMBDA d : DocType(d) = c.selectedType)
                 ELSE base
        dated == IF c.dateRange.start # 0 \/ c.dateRange.end # 0
                 THEN SelectSeq(typed, LAMBDA d : InDateRange(d, c.dateRange))
                 ELSE typed
    IN  SortDocs(dated, c.sort)

\* the values a run of filterAndSortDocuments has closed over
Closure(f) ==
    [documents |-> f.documents, searchQuery |-> f.searchQuery,
     selectedType |-> f.selectedType, dateRange |-> f.dateRange, sort |-> f.sort]

\* the effect on [searchQuery, selectedType, documents, sortBy, sortOrder,
\* dateRange]: a run without query sets filteredDocs before it returns
AfterRunStarts(f) ==
    IF f.searchQuery = ""
    THEN [f EXCEPT !.filteredDocs = FilterAndSort(f.documents, Closure(f))]
    ELSE f

\* a run with a query awaits documentService.searchDocuments
SearchesAfterRunStarts(f) ==
    IF f.searchQuery = "" THEN searches ELSE searches \cup {Closure(f)}

RunMayStart(f) ==
    f.searchQuery = "" \/ Closure(f) \in searches \/ Cardinality(searches) < MaxSearches

\* the mount effects: loadDocuments() and the first filterAndSortDocuments()
Mount ==
    /\ ~files.mounted
    /\ files' = AfterRunStarts([files EXCEPT !.mounted = TRUE, !.isLoading = TRUE])
    /\ fileOps' = {[kind |-> "mount", ids |-> {}, stage |-> "loading"]}
    /\ UNCHANGED <<serverDocs, searches>>

\* a filter control is changed, the effect runs filterAndSortDocuments
ChangeFilter(field, value) ==
    /\ files.mounted
    /\ value \in FilterValues[field]
    /\ value # files[field]
    /\ LET f == [files EXCEPT ![field] = value]
       IN  /\ RunMayStart(f)
           /\ files' = AfterRunStarts(f)
           /\ searches' = SearchesAfterRunStarts(f)
    /\ UNCHANGED <<serverDocs, fileOps>>

\* searchDocuments: the documents of the server that hold the query, or []
\* from its catch block
SearchResults(c, ok) ==
    IF ok THEN InOrder({d \in serverDocs : DocMatches(d, c.searchQuery)}) ELSE <<>>

\* the search of a run settles: the rest of filterAndSortDocuments with the
\* values of its closure, then setFilteredDocs
SearchSettles(c, ok) ==
    /\ c \in searches
    /\ searches' = searches \ {c}
    /\ files' = [files EXCEPT !.filteredDocs = FilterAndSort(SearchResults(c, ok), c)]
    /\ UNCHANGED <<serverDocs, fileOps>>

\* the list is rendered when isLoading is false
ListShown == files.mounted /\ ~files.isLoading

\* handleSelectDoc from the checkbox of a displayed document
SelectDoc(d) ==
    /\ ListShown
    /\ d \in Range(files.filteredDocs)
    /\ files' = [files EXCEPT !.selectedDocs =
           IF d \in @ THEN @ \ {d} ELSE @ \cup {d}]
    /\ UNCHANGED <<serverDocs, searches, fileOps>>

\* handleSelectAll from the checkbox above the list
SelectAll ==
    /\ ListShown
    /\ Len(files.filteredDocs) > 0
    /\ files' = [files EXCEPT !.selectedDocs =
           IF Cardinality(@) = Len(files.filteredDocs) THEN {}
           ELSE Range(files.filteredDocs)]
    /\ UNCHANGED <<serverDocs, searches, fileOps>>

\* handleDelete of a displayed document, confirmed, up to the await
Delete(d) ==
    /\ ListShown
    /\ d \in Range(files.filteredDocs)
    /\ Cardinality(fileOps) < MaxFileOps
    /\ fileOps' = fileOps \cup {[kind |-> "single", ids |-> {d}, stage |-> "deleting"]}
    /\ UNCHANGED <<files, serverDocs, searches>>

\* handleBulkDelete from its button, which is rendered for a selection
\* and disabled by isLoading; confirmed, up to the await of Promise.all
BulkDelete ==
    /\ files.mounted /\ ~files.isLoading
    /\ files.selectedDocs # {}
    /\ Cardinality(fileOps) < MaxFileOps
    /\ files' = [files EXCEPT !.isLoading = TRUE]
    /\ fileOps' = fileOps \cup
           {[kind |-> "bulk", ids |-> files.selectedDocs, stage |-> "deleting"]}
    /\ UNCHANGED <<serverDocs, searches>>

\* the deletions settle: done are the documents the server has deleted; if
\* those are all, the selection is emptied (bulk) and loadDocuments() is
\* called, else the catch and finally blocks run
DeleteSettles(op, done) ==
    /\ op \in fileOps /\ op.stage = "deleting"
    /\ done \subseteq op.ids \cap serverDocs
    /\ serverDocs' = serverDocs \ done
    /\ IF done = op.ids
       THEN /\ fileOps' = (fileOps \ {op}) \cup {[op EXCEPT !.stage = "loading"]}
            /\ files' = [files EXCEPT
                   !.selectedDocs = IF op.kind = "bulk" THEN {} ELSE @,
                   !.isLoading = TRUE]
       ELSE /\ fileOps' = fileOps \ {op}
            /\ files' = [files EXCEPT
                   !.isLoading = IF op.kind = "bulk" THEN FALSE ELSE @]
    /\ UNCHANGED searches

\* getDocuments of loadDocuments settles: setDocuments and the effect on
\* documents, or the catch block; then the finally blocks
LoadDocumentsSettles(op, ok) ==
    /\ op \in fileOps /\ op.stage = "loading"
    /\ fileOps' = fileOps \ {op}
    /\ IF ok
       THEN LET f == [files EXCEPT !.documents = InOrder(serverDocs), !.isLoading = FALSE]
            IN  /\ RunMayStart(f)
                /\ files' = AfterRunStarts(f)
                /\ searches' = SearchesAfterRunStarts(f)
       ELSE /\ files' = [files EXCEPT !.isLoading = FALSE]
            /\ UNCHANGED searches
    /\ UNCHANGED serverDocs

AppIdle == LinkIdle /\ AuthIdle /\ ChatIdle /\ FilesIdle

----------------------------------------------------------------------------
(* Specifications *)

\* downloads in flight
Init ==
    /\ phase = "input"
    /\ ParseIdle /\ NameIdle /\ DownloadIdle /\ ScanIdle /\ AppIdle

Next ==
    \/ \E c \in CallIds : \E url \in Urls : \E arg \in FilenameArgs :
           CallDownload(c, url, arg) /\ UNCHANGED <<phase, parseVars, nameVars, scanVars, appVars>>
    \/ \E c \in CallIds : FetchRejects(c) /\ UNCHANGED <<phase, parseVars, nameVars, scanVars, appVars>>
    \/ \E c \in CallIds : \E response \in Responses :
           FetchResolves(c, response) /\ UNCHANGED <<phase, parseVars, nameVars, scanVars, appVars>>
    \/ \E c \in CallIds : BlobRejects(c) /\ UNCHANGED <<phase, parseVars, nameVars, scanVars, appVars>>
    \/ \E c \in CallIds : \E size \in BlobSizes :
           BlobResolves(c, size) /\ UNCHANGED <<phase, parseVars, nameVars, scanVars, appVars>>
    \/ \E c \in CallIds : Cleanup(c) /\ UNCHANGED <<phase, parseVars, nameVars, scanVars, appVars>>

Spec == Init /\ [][Next]_vars

\* downloads in flight; a timer that has been set fires (setTimeout, 100 ms)
SpecLive ==
    /\ Spec
    /\ \A c \in CallIds :
           WF_vars(Cleanup(c) /\ UNCHANGED <<phase, parseVars, nameVars, scanVars, appVars>>)

\* one download, with every header of the vocabulary
SingleCall == 1
SingleUrls ==
    Urls \cup {AbsoluteUrl(<<<<"t">>, <<"a", ".", "docx">>>>),
               AbsoluteUrl(<<<<"t">>, <<>>>>)}
SingleArgs == FilenameArgs \cup {<<>>}
SingleSizes == {5}
SingleResponses ==
    {[status |-> 200, statusText |-> "OK", disposition |-> h] : h \in Headers}
    \cup {[status |-> 500, statusText |-> "Internal Server Error",
           disposition |-> Null]}

NextSingle ==
    \/ \E url \in SingleUrls : \E arg \in SingleArgs :
           CallDownload(SingleCall, url, arg) /\ UNCHANGED <<phase, parseVars, nameVars, scanVars, appVars>>
    \/ FetchRejects(SingleCall) /\ UNCHANGED <<phase, parseVars, nameVars, scanVars, appVars>>
    \/ /\ calls[SingleCall].pc = "awaitFetch"
       /\ \E response \in SingleResponses :
              FetchResolves(SingleCall, response)
              /\ UNCHANGED <<phase, parseVars, nameVars, scanVars, appVars>>
    \/ BlobRejects(SingleCall) /\ UNCHANGED <<phase, parseVars, nameVars, scanVars, appVars>>
    \/ \E size \in SingleSizes :
           BlobResolves(SingleCall, size) /\ UNCHANGED <<phase, parseVars, nameVars, scanVars, appVars>>
    \/ Cleanup(SingleCall) /\ UNCHANGED <<phase, parseVars, nameVars, scanVars, appVars>>

SpecSingle == Init /\ [][NextSingle]_vars

\* processContent on every chat text of the vocabulary
InitParse ==
    /\ phase = "input"
    /\ content \in ParseTexts
    /\ downloadLinks = <<>> /\ cleanContent = NoText
    /\ NameIdle /\ DownloadIdle /\ ScanIdle /\ AppIdle

NextParse == ProcessContent

SpecParse == InitParse /\ [][NextParse]_vars

\* processContent on texts with line breaks
InitClean ==
    /\ phase = "input"
    /\ content \in CleanTexts
    /\ downloadLinks = <<>> /\ cleanContent = NoText
    /\ NameIdle /\ DownloadIdle /\ ScanIdle /\ AppIdle

SpecClean == InitClean /\ [][NextParse]_vars

\* removeDownloadLinks on texts with line breaks and on every list of links
InitRemove ==
    /\ phase = "input"
    /\ content \in RemoveTexts
    /\ downloadLinks \in RemoveLinkLists
    /\ cleanContent = NoText
    /\ NameIdle /\ DownloadIdle /\ ScanIdle /\ AppIdle

NextRemove == RemoveDownloadLinks

SpecRemove == InitRemove /\ [][NextRemove]_vars

\* the dashboard's parseDownloadLinks on every text
InitInline ==
    /\ phase = "input"
    /\ content \in InlineTexts
    /\ downloadLinks = <<>>
    /\ cleanContent = NoText
    /\ NameIdle /\ DownloadIdle /\ ScanIdle /\ AppIdle

NextInline == ParseInline

SpecInline == InitInline /\ [][NextInline]_vars

\* the auth store under every order of requests and answers
InitAuth ==
    /\ phase = "input"
    /\ ParseIdle /\ NameIdle /\ DownloadIdle /\ ScanIdle
    /\ LinkIdle /\ AuthBegin /\ ChatIdle /\ FilesIdle

AuthUnchanged ==
    UNCHANGED <<phase, parseVars, nameVars, dlVars, scanVars, linkVars, chatVars,
                fileVars>>

Answers == {"ok", "no", "401", "error"}

NextAuth ==
    \/ \E route \in {"login", "dashboard"} : AppLoad(route) /\ AuthUnchanged
    \/ \E r \in requests : \E answer \in Answers : ServerHandles(r, answer) /\ AuthUnchanged
    \/ SessionExpires /\ AuthUnchanged
    \/ \E good \in BOOLEAN : SubmitLogin(good) /\ AuthUnchanged
    \/ \E r \in requests : \E seen \in Answers : LoginSettles(r, seen) /\ AuthUnchanged
    \/ NavTimerFires /\ AuthUnchanged
    \/ PublicRedirect /\ AuthUnchanged
    \/ ProtectedRedirect /\ AuthUnchanged
    \/ \E r \in requests : \E seen \in Answers : CheckAuthSettles(r, seen) /\ AuthUnchanged
    \/ ClickLogout /\ AuthUnchanged
    \/ \E r \in requests : \E seen \in Answers : LogoutSettles(r, seen) /\ AuthUnchanged
    \/ PageUnload /\ AuthUnchanged

SpecAuth == InitAuth /\ [][NextAuth]_vars

\* the chat view under every order of clicks and answers
InitChat ==
    /\ phase = "input"
    /\ ParseIdle /\ NameIdle /\ DownloadIdle /\ ScanIdle /\ AppIdle

ChatUnchanged ==
    UNCHANGED <<phase, parseVars, nameVars, dlVars, scanVars, linkVars, authVars,
                fileVars>>

NextChat ==
    \/ SendMessage /\ ChatUnchanged
    \/ SelectDocument /\ ChatUnchanged
    \/ \E r \in asks : \E answer \in AskAnswers : SendSettles(r, answer) /\ ChatUnchanged
    \/ \E r \in asks : ListSettles(r) /\ ChatUnchanged
    \/ \E r \in asks : \E answer \in AskAnswers : SelectSettles(r, answer) /\ ChatUnchanged
    \/ \E conv \in ListedConversations : LoadConversation(conv) /\ ChatUnchanged
    \/ \E conv \in ListedConversations : \E ok \in BOOLEAN :
           LoadSettles(conv, ok) /\ ChatUnchanged
    \/ NewConversation /\ ChatUnchanged

SpecChat == InitChat /\ [][NextChat]_vars

\* FileManagement under every order of clicks and answers
InitFiles ==
    /\ phase = "input"
    /\ ParseIdle /\ NameIdle /\ DownloadIdle /\ ScanIdle /\ AppIdle

FilesUnchanged ==
    UNCHANGED <<phase, parseVars, nameVars, dlVars, scanVars, linkVars, authVars,
                chatVars>>

NextFiles ==
    \/ Mount /\ FilesUnchanged
    \/ \E field \in FilterFields : \E value \in FilterValues[field] :
           ChangeFilter(field, value) /\ FilesUnchanged
    \/ \E c \in searches : \E ok \in BOOLEAN : SearchSettles(c, ok) /\ FilesUnchanged
    \/ \E d \in Docs : SelectDoc(d) /\ FilesUnchanged
    \/ SelectAll /\ FilesUnchanged
    \/ \E d \in Docs : Delete(d) /\ FilesUnchanged
    \/ BulkDelete /\ FilesUnchanged
    \/ \E op \in fileOps : \E done \in SUBSET Docs : DeleteSettles(op, done) /\ FilesUnchanged
    \/ \E op \in fileOps : \E ok \in BOOLEAN : LoadDocumentsSettles(op, ok) /\ FilesUnchanged

SpecFiles == InitFiles /\ [][NextFiles]_vars

\* one download of a link by either handler
InitLink ==
    /\ phase = "input"
    /\ ParseIdle /\ NameIdle /\ DownloadIdle /\ ScanIdle /\ AppIdle

LinkUnchanged ==
    UNCHANGED <<phase, parseVars, nameVars, dlVars, scanVars, authVars, chatVars,
                fileVars>>

NextLink ==
    \/ /\ linkCall.pc = "idle"
       /\ \E handler \in LinkHandlers : \E url \in Urls : \E arg \in LinkFilenameArgs :
              CallLinkDownload(handler, url, arg) /\ LinkUnchanged
    \/ LinkFetchRejects /\ LinkUnchanged
    \/ /\ linkCall.pc = "awaitFetch"
       /\ \E response \in LinkResponses : LinkFetchResolves(response) /\ LinkUnchanged
    \/ LinkBlobRejects /\ LinkUnchanged
    \/ \E size \in BlobSizes : LinkBlobResolves(size) /\ LinkUnchanged
    \/ LinkCleanup /\ LinkUnchanged

SpecLink == InitLink /\ [][NextLink]_vars

\* generateFilename on every label
InitName ==
    /\ phase = "input"
    /\ templateName \in Labels
    /\ extension \in Extensions
    /\ filename = NoText
    /\ ParseIdle /\ DownloadIdle /\ ScanIdle /\ AppIdle

NextName == GenerateFilename

SpecName == InitName /\ [][NextName]_vars

\* processContent called on one text after another, its loops step by step
NextScan ==
    \/ /\ scan.pc \in {"idle", "returned"}
       /\ \E text \in ScanTexts : StartParse(text)
    \/ ScanMatch
    \/ ScanNoMatch
    \/ ScanReturn

SpecScan == Init /\ [][NextScan]_vars

----------------------------------------------------------------------------
(* Properties of parseDownloadLinks and removeDownloadLinks *)

Done == phase = "done"

LinkIndices == 1..Len(downloadLinks)

\* the matches the while loop of a pattern goes through on the text
MatchesOf(pattern) ==
    LET ms == ExecAll(pattern.regex, content, 1)
    IN  {ms[i] : i \in 1..Len(ms)}

PatternIndices == 1..Len(DOWNLOAD_LINK_PATTERNS)

\* the raw URL captures of a pattern on the text
CapturesOf(pattern) == {m.groups[pattern.urlIndex] : m \in MatchesOf(pattern)}

\* C1: no two entries of the list parseDownloadLinks returns have equal url
\* fields.
C1_NoTwoEntriesShareUrl ==
    Done => \A i \in LinkIndices : \A j \in LinkIndices :
                i # j => downloadLinks[i].url # downloadLinks[j].url

\* the patterns that capture u on the text
CapturingPatterns(u) ==
    {k \in PatternIndices : u \in CapturesOf(DOWNLOAD_LINK_PATTERNS[k])}

\* C2: a URL (one that begins with "http") captured by two different patterns
\* has exactly one entry, and that entry has the type and a label of the
\* capturing pattern with the lowest priority number.
C2_OneEntryOfHighestPriorityPattern ==
    Done => \A k1 \in PatternIndices :
            \A u \in CapturesOf(DOWNLOAD_LINK_PATTERNS[k1]) :
                (StartsWithHttp(u) /\ Cardinality(CapturingPatterns(u)) >= 2) =>
                LET best == DOWNLOAD_LINK_PATTERNS[
                                CHOOSE k \in CapturingPatterns(u) :
                                    \A l \in CapturingPatterns(u) :
                                        DOWNLOAD_LINK_PATTERNS[k].priority
                                            <= DOWNLOAD_LINK_PATTERNS[l].priority]
                    entries == {i \in LinkIndices : downloadLinks[i].url = Trim(u)}
                IN  /\ Cardinality(entries) = 1
                    /\ \A i \in entries :
                        /\ downloadLinks[i].type = best.type
                        /\ \E m \in MatchesOf(best) :
                            /\ m.groups[best.urlIndex] = u
                            /\ downloadLinks[i].text = LinkText(best, m)

\* the position in the text of the first match of the entry's pattern that
\* consumed the entry's fullMatch
FirstMatchIndex(link) ==
    LET I == {m.index : m \in
                {mm \in UNION {MatchesOf(DOWNLOAD_LINK_PATTERNS[k]) :
                                 k \in {l \in PatternIndices :
                                          DOWNLOAD_LINK_PATTERNS[l].type = link.type}} :
                    FullMatch(content, mm) = link.fullMatch}}
    IN  CHOOSE i \in I : \A j \in I : i <= j

\* C3: the entries are in ascending order of priority, and entries of the same
\* priority are in the order in which their matches occur in the text.
C3_SortedByPriorityThenPosition ==
    Done => \A i \in LinkIndices : \A j \in LinkIndices :
                i < j =>
                    /\ downloadLinks[i].priority <= downloadLinks[j].priority
                    /\ downloadLinks[i].priority = downloadLinks[j].priority
                        => FirstMatchIndex(downloadLinks[i])
                               < FirstMatchIndex(downloadLinks[j])

\* three entries, two of them of the same priority
C3_Witness ==
    /\ Done
    /\ Len(downloadLinks) >= 3
    /\ \E i \in LinkIndices : \E j \in LinkIndices :
        i # j /\ downloadLinks[i].priority = downloadLinks[j].priority
    /\ \E i \in LinkIndices : \E j \in LinkIndices :
        downloadLinks[i].priority # downloadLinks[j].priority

\* C4: every entry's url begins with "http", and a match whose URL capture is
\* empty or does not begin with "http" produces no entry.
C4_EveryUrlBeginsWithHttp ==
    Done =>
        /\ \A i \in LinkIndices : StartsWithHttp(downloadLinks[i].url)
        /\ \A k \in PatternIndices :
           \A m \in MatchesOf(DOWNLOAD_LINK_PATTERNS[k]) :
               LET u == m.groups[DOWNLOAD_LINK_PATTERNS[k].urlIndex]
               IN  (u = <<>> \/ ~StartsWithHttp(u)) =>
                       ~\E i \in LinkIndices :
                           /\ downloadLinks[i].type = DOWNLOAD_LINK_PATTERNS[k].type
                           /\ downloadLinks[i].fullMatch = FullMatch(content, m)

\* a text where one match is rejected for its scheme and another gives an entry
C4_Witness ==
    /\ Done
    /\ Len(downloadLinks) >= 1
    /\ \E k \in PatternIndices : \E m \in MatchesOf(DOWNLOAD_LINK_PATTERNS[k]) :
        ~StartsWithHttp(m.groups[DOWNLOAD_LINK_PATTERNS[k].urlIndex])

\* the text holds no "http://" or "https://"
NoHttpUrlIn(s) == \A i \in 1..Len(s) : s[i] \notin HttpLower

C6_CleanTextHoldsNoLinkUrl ==
    Done => \A i \in LinkIndices : ~Contains(cleanContent, downloadLinks[i].url)

\* a run of three or more newlines with text before and after it
HasInteriorNewlineRun(s) ==
    \E i \in 1..Len(s) :
        /\ i + 2 <= Len(s)
        /\ \A k \in i..(i + 2) : s[k] = "\n"
        /\ \E j \in 1..(i - 1) : s[j] \notin Whitespace
        /\ \E j \in (i + 3)..Len(s) : s[j] \notin Whitespace

\* C7: a run of three or more newlines left inside the text by the link
\* removal comes out as exactly two newlines, which the returned text holds.
C7_ParagraphBreakKept ==
    (Done /\ HasInteriorNewlineRun(RemoveEach(content, downloadLinks))) =>
        /\ Contains(cleanContent, <<"\n", "\n">>)
        /\ ~Contains(cleanContent, <<"\n", "\n", "\n">>)

----------------------------------------------------------------------------
(* Properties of generateFilename *)

\* the name part: the result without the final "." + extension
NamePart == SubSeq(filename, 1, Len(filename) - 2)

\* a-z, 0-9, the letters ə ı ö ü ç ş ğ, "_"; "template" is made of a-z
NameChars == {"a", "schwa", "_", "template"}

\* C8: the name part is non-empty, holds only a-z, 0-9, ə ı ö ü ç ş ğ and "_",
\* neither starts nor ends with "_", holds no "__", and the result ends with
\* "." + extension.
C8_NamePartIsClean ==
    Done =>
        /\ Len(filename) >= 3
        /\ \A i \in 1..Len(NamePart) : NamePart[i] \in NameChars
        /\ NamePart[1] # "_"
        /\ NamePart[Len(NamePart)] # "_"
        /\ \A i \in 1..(Len(NamePart) - 1) :
            ~(NamePart[i] = "_" /\ NamePart[i + 1] = "_")
        /\ filename[Len(filename) - 1] = "."
        /\ filename[Len(filename)] = ExtensionOrDefault(extension)

\* a label with whitespace at both ends and around a removed character
C8_Witness ==
    /\ Done
    /\ Len(templateName) >= 4
    /\ templateName[1] = " "
    /\ templateName[Len(templateName)] = " "
    /\ \E i \in 1..Len(templateName) : templateName[i] \in {"A", "SCHWA", "Idot"}
    /\ Len(NamePart) >= 1

\* the characters that are no letter or digit in either case
NonNameChars == {"!", "_", ".", " ", "\n"}

\* C9: a label without any permitted character gives "template." + extension.
C9_FallbackName ==
    (Done /\ \A i \in 1..Len(templateName) : templateName[i] \in NonNameChars) =>
        filename = <<"template", ".", ExtensionOrDefault(extension)>>

\* the label "!!!"
C9_Witness ==
    /\ Done
    /\ templateName = <<"!", "!", "!">>
    /\ extension = "pdf"
    /\ filename = <<"template", ".", "pdf">>

----------------------------------------------------------------------------
(* Properties of downloadFromUrl *)

\* the response of call c has arrived and its status is outside 200..299
FailedStatus(c) ==
    /\ calls[c].response # NoResponse
    /\ ~ResponseOk(calls[c].response)

\* C10: on a response whose status is outside the success range the call
\* rejects with an error that carries the status and the status text, and it
\* creates no object URL and starts no save.
C10_HttpErrorRejects ==
    \A c \in CallIds :
        FailedStatus(c) =>
            /\ calls[c].pc = "rejected"
            /\ calls[c].error.status = calls[c].response.status
            /\ calls[c].error.statusText = calls[c].response.statusText
            /\ calls[c].objectUrl = 0
            /\ \A i \in 1..Len(objectUrls) : objectUrls[i].owner # c
            /\ \A i \in 1..Len(saves) : saves[i].call # c
            /\ \A a \in anchors : a.owner # c

\* a call rejected on a 404 while another call has saved its file
C10_Witness ==
    \E c \in CallIds : \E d \in CallIds :
        /\ calls[c].pc = "rejected"
        /\ calls[c].response.status = 404
        /\ calls[c].error.status = 404
        /\ calls[d].pc = "resolved"
        /\ Len(saves) = 1

\* the body of call c has been read and holds no byte
EmptyBodyRead(c) ==
    /\ calls[c].blob.from = c
    /\ calls[c].blob.size = 0

\* C11: a download whose response has a success status and a body of zero
\* bytes fails with an empty-body error; it creates no object URL and starts
\* no save.
C11_EmptyBodyFails ==
    \A c \in CallIds :
        EmptyBodyRead(c) =>
            /\ calls[c].pc = "rejected"
            /\ calls[c].failure = "empty"
            /\ \A i \in 1..Len(objectUrls) : objectUrls[i].owner # c
            /\ \A i \in 1..Len(saves) : saves[i].call # c

\* the value of the filename parameter of a header as it is written, its
\* quotes included; <<>> when the header is absent or has no such parameter
FilenameParameterValue(h) ==
    IF h = Null THEN <<>> ELSE DispositionCapture(h)

\* a value without the quotes at its two ends
SurroundingQuotesStripped(v) ==
    LET J == {k \in 1..Len(v) : v[k] \notin Quotes}
    IN  IF J = {} THEN <<>>
        ELSE SubSeq(v, CHOOSE k \in J : \A m \in J : k <= m,
                       CHOOSE k \in J : \A m \in J : m <= k)

\* the first name there is, in the order argument, header, URL, "download"
NameInOrder(arg, h, url) ==
    IF arg # Null /\ arg # <<>> THEN arg
    ELSE IF SurroundingQuotesStripped(FilenameParameterValue(h)) # <<>>
         THEN SurroundingQuotesStripped(FilenameParameterValue(h))
         ELSE IF LastPathSegment(url) # <<>> THEN LastPathSegment(url)
              ELSE <<"download">>

\* C12: the name a download saves under is the filename argument when one is
\* given, else the value of the header's filename= parameter without its
\* surrounding quotes, else the last path segment of the URL, else
\* "download"; without argument and with the header
\* attachment; filename="report.pdf" it is report.pdf whatever the URL.
C12_FilenameResolutionOrder ==
    \A c \in CallIds :
        calls[c].pc = "resolved" =>
            /\ calls[c].resolved =
                   NameInOrder(calls[c].filename, calls[c].response.disposition,
                               calls[c].url)
            /\ (calls[c].filename = Null
                    /\ calls[c].response.disposition = AttachmentReportPdf)
               => calls[c].resolved = <<"report", ".", "pdf">>

\* C13: the name handed to the save holds a "."; it is the resolved name
\* followed by ".docx" when the resolved name holds no ".", and the resolved
\* name itself otherwise.
C13_SavedNameHasExtension ==
    \A i \in 1..Len(saves) :
        LET resolved == calls[saves[i].call].resolved
        IN  /\ Contains(saves[i].download, <<".">>)
            /\ \A a \in anchors : a.href = saves[i].href => a.download = saves[i].download
            /\ IF Contains(resolved, <<".">>)
               THEN saves[i].download = resolved
               ELSE saves[i].download = resolved \o <<".", "docx">>

\* a file saved as report.docx for the URL segment "report", after a header
\* that names no file
C13_Witness ==
    /\ Len(saves) = 1
    /\ calls[SingleCall].filename = Null
    /\ calls[SingleCall].response.disposition = <<"inline">>
    /\ calls[SingleCall].resolved = <<"report">>
    /\ saves[1].download = <<"report", ".", "docx">>

\* C14: an invocation issues one GET and no second one; when the fetch, the
\* status check or the reading of the body fails, its promise is rejected;
\* it resolves only after it has started a save.
C14_OneRequestAndFailuresReject ==
    \A c \in CallIds :
        /\ fetches[c] = (IF calls[c].pc = "idle" THEN 0 ELSE 1)
        /\ calls[c].failure # "none" =>
               /\ calls[c].pc = "rejected"
               /\ calls[c].error # NoError
        /\ calls[c].pc = "resolved" =>
               /\ calls[c].failure = "none"
               /\ \E i \in 1..Len(saves) : saves[i].call = c

\* the body of one call could not be read, the fetch of another was
\* rejected, each after one GET
C14_Witness ==
    \E c \in CallIds : \E d \in CallIds :
        /\ calls[c].failure = "body" /\ calls[c].pc = "rejected"
        /\ calls[d].failure = "fetch" /\ calls[d].pc = "rejected"
        /\ fetches[c] = 1 /\ fetches[d] = 1
        /\ saves = <<>>

\* the saves call c has started
SavesOf(c) == {i \in 1..Len(saves) : saves[i].call = c}

\* C15: with several downloads in flight each one saves the body of its own
\* response under its own name, through its own object URL; a timer revokes
\* only the object URL of its own call and removes only its own anchor; how
\* one call ends does not depend on the others.
C15_ConcurrentCallsIndependent ==
    /\ \A i \in 1..Len(saves) :
           LET c == saves[i].call
           IN  /\ saves[i].blob = calls[c].blob
               /\ saves[i].blob.from = c
               /\ saves[i].href = calls[c].objectUrl
               /\ objectUrls[saves[i].href].owner = c
               /\ objectUrls[saves[i].href].blob = calls[c].blob
               /\ saves[i].download = EnsureExtension(calls[c].resolved)
    /\ \A j \in 1..Len(objectUrls) :
           \A k \in 1..Len(objectUrls[j].revokedBy) :
               objectUrls[j].revokedBy[k] = objectUrls[j].owner
    /\ \A c \in CallIds :
           /\ Cardinality(SavesOf(c)) = (IF calls[c].pc = "resolved" THEN 1 ELSE 0)
           /\ calls[c].timer =>
                  \E a \in anchors : a.owner = c /\ a.href = calls[c].objectUrl
           /\ calls[c].pc = "rejected" <=> calls[c].failure # "none"

\* two downloads have saved under different names; the timer of the first
\* has fired while the anchor of the second is still in the document
C15_Witness ==
    \E c \in CallIds : \E d \in CallIds :
        /\ c # d
        /\ calls[c].pc = "resolved" /\ calls[d].pc = "resolved"
        /\ calls[c].objectUrl < calls[d].objectUrl
        /\ ~calls[c].timer /\ calls[d].timer
        /\ objectUrls[calls[c].objectUrl].revokedBy = <<c>>
        /\ objectUrls[calls[d].objectUrl].revokedBy = <<>>
        /\ \E i \in SavesOf(c) : \E j \in SavesOf(d) :
               saves[i].download # saves[j].download

\* what holds of the object URLs in every state: none is revoked twice; one
\* is revoked exactly when the timer set after the click on its anchor has
\* fired; an anchor's href is an object URL created before; a rejected call
\* has created none
ObjectUrlsInOrder ==
    /\ \A j \in 1..Len(objectUrls) :
           LET c == objectUrls[j].owner
           IN  /\ Len(objectUrls[j].revokedBy) <= 1
               /\ calls[c].objectUrl = j
               /\ \E i \in 1..Len(saves) : saves[i].href = j
               /\ Len(objectUrls[j].revokedBy) = 1 <=> ~calls[c].timer
               /\ calls[c].pc = "resolved"
    /\ \A a \in anchors : a.href \in 1..Len(objectUrls)
    /\ \A i \in 1..Len(saves) : saves[i].href \in 1..Len(objectUrls)
    /\ \A c \in CallIds :
           calls[c].pc # "resolved" =>
               /\ calls[c].objectUrl = 0
               /\ \A j \in 1..Len(objectUrls) : objectUrls[j].owner # c

HasObjectUrl(c) == calls[c].objectUrl # 0

OwnObjectUrlRevoked(c) ==
    /\ HasObjectUrl(c)
    /\ Len(objectUrls[calls[c].objectUrl].revokedBy) = 1

\* C16: every object URL a download creates is revoked, once and no more,
\* and only by the timer set after the click; it exists before an anchor
\* refers to it; a download that fails creates none.
C16_ObjectUrlLifecycle ==
    /\ []ObjectUrlsInOrder
    /\ \A c \in CallIds : HasObjectUrl(c) ~> OwnObjectUrlRevoked(c)

\* the object URL of a finished download has been revoked by its timer, and
\* a second call has failed without creating one
C16_Witness ==
    \E c \in CallIds : \E d \in CallIds :
        /\ calls[c].pc = "resolved" /\ ~calls[c].timer
        /\ objectUrls[calls[c].objectUrl].revokedBy = <<c>>
        /\ \A a \in anchors : a.owner # c
        /\ calls[d].pc = "rejected"
        /\ Len(objectUrls) = 1

----------------------------------------------------------------------------
(* Properties of parseDownloadLinks across and within invocations *)

\* C17: whatever invocations came before, parseDownloadLinks returns for a
\* text the list it returns for it in a module just loaded, and the table of
\* the module holds the patterns it was written with, in the same order.
C17_ResultDependsOnTextOnly ==
    /\ patternTable = DOWNLOAD_LINK_PATTERNS
    /\ scan.pc = "returned" =>
           /\ downloadLinks = parseDownloadLinks(scan.text)
           /\ content = scan.text

\* a second invocation has returned two entries
C17_Witness ==
    /\ parseCalls = 2
    /\ scan.pc = "returned"
    /\ Len(downloadLinks) = 2

\* the while loop of a pattern has gone round at most once per position of
\* the text, lastIndex lies within the text or just behind it, and the
\* pattern index within the table or just behind it
ScanWithinText ==
    scan.pc = "loop" =>
        /\ scan.iterations <= Len(scan.text)
        /\ scan.lastIndex >= 1 /\ scan.lastIndex <= Len(scan.text) + 1
        /\ scan.k >= 1 /\ scan.k <= Len(patternTable) + 1

\* a step of a running invocation returns, or goes on to the next pattern,
\* or, staying with the pattern after a match that was pushed or skipped,
\* leaves lastIndex further right
ScanStepAdvances ==
    (scan.pc = "loop" /\ scan' # scan) =>
        \/ scan'.pc = "returned" /\ scan.k > Len(patternTable)
        \/ scan'.pc = "loop" /\ scan'.k = scan.k + 1
        \/ /\ scan'.pc = "loop" /\ scan'.k = scan.k
           /\ scan'.lastIndex > scan.lastIndex
           /\ scan'.iterations = scan.iterations + 1

\* C18: parseDownloadLinks terminates on every text: with every match of a
\* pattern, pushed or skipped, the scan position moves right, so the loop
\* of a pattern goes round at most once per position of the text; every
\* other step goes on to the next pattern or returns.
C18_ScanTerminates ==
    /\ []ScanWithinText
    /\ [][ScanStepAdvances]_vars

\* the loop of a pattern has gone round twice and has skipped one of the
\* two matches
C18_Witness ==
    /\ scan.pc = "loop"
    /\ scan.iterations = 2
    /\ Len(scan.links) = 1
    /\ scan.lastIndex = Len(scan.text) + 1

\* the text an entry of pattern must carry for the match m
LabelOrDefault(pattern, m) ==
    IF pattern.textIndex # NullIndex THEN Trim(m.groups[pattern.textIndex])
    ELSE IF pattern.defaultText # <<>> THEN pattern.defaultText
    ELSE <<"Yukle">>

\* what the entries show: type, text and url
Shown(links) ==
    [i \in 1..Len(links) |->
        [type |-> links[i].type, text |-> links[i].text, url |-> links[i].url]]

\* C19: the text of an entry is the trimmed label its pattern captures, or,
\* for a pattern without label group, the pattern's default text; the text
\* with an emoji link and a markdown link to another URL gives two entries,
\* the markdown one with its label first, the emoji one with the default
\* text second.
C19_EntryTextIsLabelOrDefault ==
    Done =>
        /\ \A i \in LinkIndices :
               \E p \in PatternIndices :
                   \E m \in MatchesOf(DOWNLOAD_LINK_PATTERNS[p]) :
                       /\ DOWNLOAD_LINK_PATTERNS[p].type = downloadLinks[i].type
                       /\ FullMatch(content, m) = downloadLinks[i].fullMatch
                       /\ downloadLinks[i].text =
                              LabelOrDefault(DOWNLOAD_LINK_PATTERNS[p], m)
        /\ content = ExampleText =>
               Shown(downloadLinks) =
                   << [type |-> "markdown", text |-> <<"a">>, url |-> <<"U", "a">>],
                      [type |-> "emoji_direct", text |-> <<"Yukle">>, url |-> <<"U">>] >>

\* the example text has been parsed into its two entries
C19_Witness ==
    /\ Done
    /\ content = ExampleText
    /\ Len(downloadLinks) = 2
    /\ downloadLinks[1].text = <<"a">>
    /\ downloadLinks[2].text = <<"Yukle">>

\* the capture of a match is missing, empty or no http URL: the while body
\* skips the match
SkippedCapture(url) == url = Undefined \/ url = <<>> \/ ~StartsWithHttp(url)

\* C20: parseDownloadLinks and removeDownloadLinks return on every text and
\* raise nothing; a match whose URL capture is missing or empty (or is no
\* http URL) gives no entry, and the other matches of the text still have
\* their entries.
C20_NeverRaises ==
    /\ scan.pc # "threw"
    /\ scan.pc = "returned" =>
           /\ Done
           /\ cleanContent = removeDownloadLinks(content, downloadLinks)
           /\ \A p \in PatternIndices :
                  \A m \in MatchesOf(DOWNLOAD_LINK_PATTERNS[p]) :
                      LET pattern == DOWNLOAD_LINK_PATTERNS[p]
                          url == Group(m, pattern.urlIndex)
                      IN  IF SkippedCapture(url)
                          THEN \A i \in LinkIndices :
                                   ~(/\ downloadLinks[i].type = pattern.type
                                     /\ downloadLinks[i].fullMatch = FullMatch(content, m))
                          ELSE \E i \in LinkIndices : downloadLinks[i].url = Trim(url)

\* a text whose emoji match captures a URL in upper case and whose markdown
\* link is returned
C20_Witness ==
    /\ scan.pc = "returned"
    /\ content = <<"EMOJI", " ", "V", " ", "[", "a", "]", "(", "U", ")">>
    /\ \E m \in MatchesOf(DOWNLOAD_LINK_PATTERNS[2]) : SkippedCapture(m.groups[1])
    /\ Len(downloadLinks) = 1
    /\ downloadLinks[1].type = "markdown"

----------------------------------------------------------------------------
(* Properties of removeDownloadLinks on any list of links *)

\* the text after the first n links have been gone through
StrippedAfter(n) == RemoveEach(content, SubSeq(downloadLinks, 1, n))

\* cur is prev without its first occurrence of sub
FirstOccurrenceRemoved(prev, sub, cur) ==
    \E i \in 1..Len(prev) :
        /\ OccursAt(prev, sub, i)
        /\ \A j \in 1..(i - 1) : ~OccursAt(prev, sub, j)
        /\ cur = SubSeq(prev, 1, i - 1) \o SubSeq(prev, i + Len(sub), Len(prev))

NonWhitespace(s) == SelectSeq(s, LAMBDA t : t \notin Whitespace)

\* C21: every link takes out of the text the first occurrence that is left
\* of its fullMatch and no other; a link without fullMatch, or one whose
\* fullMatch does not occur, takes out nothing; what is left is changed by
\* the whitespace normalisation only.
C21_RemovesFirstOccurrenceOnly ==
    Done =>
        /\ \A n \in 1..Len(downloadLinks) :
               LET sub == downloadLinks[n].fullMatch
                   prev == StrippedAfter(n - 1)
                   cur == StrippedAfter(n)
               IN  IF sub = <<>> \/ ~Contains(prev, sub)
                   THEN cur = prev
                   ELSE FirstOccurrenceRemoved(prev, sub, cur)
        /\ NonWhitespace(cleanContent) =
               NonWhitespace(StrippedAfter(Len(downloadLinks)))

\* of two occurrences of a link's fullMatch the second is left, next to a
\* link without fullMatch
C21_Witness ==
    /\ Done
    /\ content = <<"[", "a", "]", "(", "U", ")", "a", " ", "[", "a", "]", "(", "U", ")">>
    /\ downloadLinks = << [fullMatch |-> <<"[", "a", "]", "(", "U", ")">>],
                          [fullMatch |-> <<>>] >>
    /\ cleanContent = <<"a", " ", "[", "a", "]", "(", "U", ")">>

----------------------------------------------------------------------------
(* Properties of the chat view's downloads of a link *)

\* C22: a file name the caller passes is the name the file is saved under;
\* the name of the Content-Disposition header is used only when the caller
\* passed none.
C22_CallerFilenameTakesPrecedence ==
    (linkCall.saved # NoSave /\ linkCall.arg # Undefined) =>
        linkCall.saved = linkCall.arg

----------------------------------------------------------------------------
(* Properties of the chat view's parseDownloadLinks *)

\* the url begins with the scheme http or https, written in either case
BeginsWithHttpScheme(url) == url # <<>> /\ url[1] \in HttpAnyCase

\* C23: every link the dashboard's parseDownloadLinks returns has a url that
\* begins with "http", whichever of the three patterns found it.
C23_InlineUrlsBeginWithHttp ==
    Done => \A i \in 1..Len(downloadLinks) :
                BeginsWithHttpScheme(downloadLinks[i].url)

----------------------------------------------------------------------------
(* Properties of the auth store and of ProtectedRoute *)

\* the checkAuth the mounted ProtectedRoute started has not settled
OwnCheckInFlight ==
    \E r \in requests : r.kind = "checkAuth" /\ r.guard = page.guard.id

\* C24: a mounted ProtectedRoute never renders its children while
\* isAuthenticated is false: it renders the loading screen until the
\* checkAuth it started has settled, afterwards its children if
\* isAuthenticated is true and the redirect to /login if not.
C24_ProtectedRouteGuardsChildren ==
    page.guard.mounted =>
        /\ Render(page.guard, authStore) = "children" => authStore.isAuthenticated
        /\ Render(page.guard, authStore) =
               IF OwnCheckInFlight THEN "loading"
               ELSE IF authStore.isAuthenticated THEN "children" ELSE "redirect"

\* the own checkAuth has settled on a store that is not authenticated: the
\* redirect is rendered, not the children
C24_Witness ==
    /\ page.guard.mounted
    /\ ~OwnCheckInFlight
    /\ ~authStore.isAuthenticated
    /\ Render(page.guard, authStore) = "redirect"

\* a step in which logout() completes
LogoutCompletes ==
    /\ page'.loaded
    /\ \E r \in requests :
           r.kind = "logout" /\ \A q \in requests' : q.id # r.id

\* C25: when logout() completes the store has user = null, isAuthenticated =
\* false, error = null and isLoading = false, whether the request succeeded
\* or failed, and logout() has not rejected.
C25_LogoutAlwaysClears ==
    [][LogoutCompletes =>
          /\ authStore' = [user |-> Null, isAuthenticated |-> FALSE,
                           error |-> Null, isLoading |-> FALSE]
          /\ authHistory'.logoutResult = "resolved"]_vars

\* a logout() whose request failed has completed
C25_Witness ==
    /\ authHistory.logoutSeen = "error"
    /\ authHistory.logoutResult = "resolved"
    /\ authStore = InitialStore

\* C26: from the successful completion of login() the store stays
\* authenticated with the user who logged in, until logout() is called or a
\* checkAuth() issued after that login reports unauthenticated; the answer
\* to a checkAuth() issued before does not reset the store.
C26_LoginOutlivesEarlierCheckAuth ==
    authHistory.loginHolds =>
        authStore.isAuthenticated /\ authStore.user = TheUser

----------------------------------------------------------------------------
(* Properties of the chat view *)

\* the chatService.askQuestion requests that have not settled
AsksInFlight == {r \in asks : r.stage = "sent"}

\* C27: at most one askQuestion request is in flight at any time, and
\* isLoading is true as long as one is: no question is sent while isLoading
\* is true and isLoading becomes false only when none is in flight.
C27_OneQuestionInFlight ==
    /\ Cardinality(AsksInFlight) <= 1
    /\ AsksInFlight # {} => chat.isLoading

\* the messages that are replies of the server to a question
Replies == {i \in 1..Len(chat.messages) : chat.messages[i].type \in {"bot", "system"}}

\* C28: the replies shown are replies to questions of the conversation
\* shown: a reply that arrives after another conversation was loaded or a
\* new one started is not added to the messages and does not set
\* currentConversation.
C28_ReplyStaysInItsConversation ==
    /\ \A i \in Replies : chat.messages[i].thread = chat.thread
    /\ chat.conversationThread = chat.thread

----------------------------------------------------------------------------
(* Properties of FileManagement *)

\* C29: once the operations have settled, selectedDocs holds only ids of
\* documents that exist on the server and are displayed (in filteredDocs).
C29_SelectionIsDisplayed ==
    (fileOps = {} /\ searches = {}) =>
        files.selectedDocs \subseteq serverDocs \cap Range(files.filteredDocs)

\* what a run started with the present settings may set filteredDocs to:
\* the documents without a query, the answer of a search with one
ResultsForPresentSettings ==
    IF files.searchQuery = ""
    THEN {FilterAndSort(files.documents, Closure(files))}
    ELSE {FilterAndSort(InOrder({d \in S : DocMatches(d, files.searchQuery)}),
                        Closure(files)) : S \in SUBSET Docs} \cup {<<>>}

\* C30: when no search and no load is pending, filteredDocs is the result of
\* filterAndSortDocuments for the present searchQuery, type, date range and
\* sort settings; the answer to an older search has not replaced it.
C30_LatestFilterRunWins ==
    (files.mounted /\ searches = {} /\ fileOps = {}) =>
        files.filteredDocs \in ResultsForPresentSettings

====
